---- MODULE Spec2Model ----
(***************************************************************************)
(* A model of the SimulaCAN core of setera-dashboard:                      *)
(*   - convert_log.py: convert_and_inject, the periodic PGN injection      *)
(*     loop that runs over the rows of a recorded CAN log;                 *)
(*   - simulation_params.py: ParameterConversions and SimulationParameters *)
(*     (the parameter store);                                              *)
(*   - frame_modifier.py: FrameModifier.modify_frame (the byte overlay).   *)
(*                                                                         *)
(* Times of convert_log.py are integers in milliseconds.  The source        *)
(* computes them in floating point from timestamps in seconds; the cursors *)
(* it keeps are the integral floats -1.0 + k * repetition_ms.              *)
(***************************************************************************)
EXTENDS Integers, Sequences, FiniteSets, TLC

VARIABLES
    conv,               \* the locals of one run of convert_and_inject
    conv2,              \* the locals of a second, independent run over another input
    parameters,         \* SimulationParameters.parameters: name -> AtomicParameter
    simulation_enabled, \* SimulationParameters._simulation_enabled (the Event's flag)
    update_callbacks,   \* SimulationParameters._update_callbacks
    sp,                 \* per control thread: the locals of its set_parameter call
    mf,                 \* the frame thread: the locals of its modify_frame call
    cv,                 \* the latest call of ParameterConversions: arguments and result
    reg,                \* the latest register/unregister call and the list it found
    recent_changes,     \* SimulationParameters._recent_changes: name -> time of change
    now,                \* time.time(), in seconds
    query,              \* the latest was_recently_changed call and what it returned
    runs,               \* the bookkeeping of two runs of convert_and_inject over one input
    loop                \* convert_and_inject's position within the body of its row loop

schedVars == <<conv, conv2>>
storeVars == <<parameters, simulation_enabled, update_callbacks, sp, mf, recent_changes>>
otherVars == <<now, query, runs, loop>>
vars == <<conv, conv2, parameters, simulation_enabled, update_callbacks, sp, mf, cv, reg,
          recent_changes, now, query, runs, loop>>

(***************************************************************************)
(* Bounds of the model.                                                    *)
(***************************************************************************)
\* The largest elapsed time (ms) a row of the input may have.
MaxElapsed == 2500

\* The raw values 0 .. MaxRawSample of each parameter are converted, with the
\* largest ones of its width.
MaxRawSample == 260

\* The human values 0.0, 0.1, ..., MaxTenths / 10 are converted, with some values
\* outside the ranges.
MaxTenths == 300

(***************************************************************************)
(* convert_log.py                                                          *)
(***************************************************************************)
\* first_timestamp = None: no valid row has been seen.
None == -1

\* The injection table, in the dict's insertion order.  can_id_hex is held as
\* the integer it denotes (\h starts a hexadecimal number), payload_template as
\* its eight bytes.
PGNS_TO_INJECT ==
    << [name |-> "Total_Hours",    can_id_hex |-> \h18FEE500, repetition_ms |-> 1000,
        payload_template |-> <<255, 255, 255, 255, 0, 0, 0, 0>>],
       [name |-> "Accel_Pedal",    can_id_hex |-> \h0CF00300, repetition_ms |-> 50,
        payload_template |-> <<0, 255, 0, 0, 0, 0, 0, 0>>],
       [name |-> "Total_Fuel",     can_id_hex |-> \h18FEE900, repetition_ms |-> 1000,
        payload_template |-> <<0, 0, 0, 0, 255, 255, 255, 255>>],
       [name |-> "Turbo_Pressure", can_id_hex |-> \h18FEF600, repetition_ms |-> 500,
        payload_template |-> <<0, 255, 0, 0, 0, 0, 0, 0>>],
       [name |-> "Total_Distance", can_id_hex |-> \h18FEE000, repetition_ms |-> 500,
        payload_template |-> <<0, 0, 0, 0, 255, 255, 255, 255>>] >>

PgnNames == {PGNS_TO_INJECT[i].name : i \in DOMAIN PGNS_TO_INJECT}

PgnInfo(pgn_name) ==
    PGNS_TO_INJECT[CHOOSE i \in DOMAIN PGNS_TO_INJECT : PGNS_TO_INJECT[i].name = pgn_name]

\* The 11-bit boundary of a standard identifier (0x7FF).
StdIdMax == 2047

\* One line of the output file, before it is rendered as text: the time in ms
\* (rendered as seconds with six decimals), the identifier, whether the 'x'
\* suffix is appended, the DLC field and the data bytes.  synthetic is a history
\* field: whether the line was written by the injection loop.
format_output_line(timestamp_ms, can_id, dlc, data_bytes, is_extended, synthetic) ==
    [timestamp_ms |-> timestamp_ms, can_id |-> can_id, x_suffix |-> is_extended,
     dlc |-> dlc, data |-> data_bytes, synthetic |-> synthetic]

\* The injected line with the live raw value of an enabled engine_rpm written
\* over the first two bytes of the template.
InjectedLineLive(pgn_info, injection_time_ms) ==
    format_output_line(injection_time_ms, pgn_info.can_id_hex, 8,
                       IF parameters["engine_rpm"].enabled
                       THEN [pgn_info.payload_template EXCEPT
                                ![1] = parameters["engine_rpm"].raw_value % 256,
                                ![2] = (parameters["engine_rpm"].raw_value \div 256) % 256]
                       ELSE pgn_info.payload_template,
                       pgn_info.can_id_hex > StdIdMax, TRUE)

\* The injected line written without the extended argument, which then takes
\* its default, False.
InjectedLineDefault(pgn_info, injection_time_ms) ==
    format_output_line(injection_time_ms, pgn_info.can_id_hex, 8,
                       pgn_info.payload_template, FALSE, TRUE)

\* The line the injection loop writes for pgn_info at injection_time_ms.
InjectedLine(pgn_info, injection_time_ms) ==
    format_output_line(injection_time_ms, pgn_info.can_id_hex, 8,
                       pgn_info.payload_template,
                       pgn_info.can_id_hex > StdIdMax, TRUE)

\* The loop body taken at most once: a single conditional check in place of the
\* while loop.
InjectIfDue(pgn_info, last, t_ms, lines) ==
    IF t_ms >= last + pgn_info.repetition_ms
    THEN [last  |-> last + pgn_info.repetition_ms,
          lines |-> Append(lines, InjectedLine(pgn_info, last + pgn_info.repetition_ms))]
    ELSE [last |-> last, lines |-> lines]

\* A due PGN gets one line stamped with the row's elapsed time, where the cursor
\* is then left.
InjectAtRowTime(pgn_info, last, t_ms, lines) ==
    IF t_ms >= last + pgn_info.repetition_ms
    THEN [last |-> t_ms, lines |-> Append(lines, InjectedLine(pgn_info, t_ms))]
    ELSE [last |-> last, lines |-> lines]

\* while current_relative_time_ms >= last_injection_time_ms[pgn_name] + repetition_ms:
\* write one line stamped last + repetition_ms and move the cursor there.
RECURSIVE InjectWhileDue(_, _, _, _)
InjectWhileDue(pgn_info, last, t_ms, lines) ==
    IF t_ms >= last + pgn_info.repetition_ms
    THEN InjectWhileDue(pgn_info, last + pgn_info.repetition_ms, t_ms,
                        Append(lines, InjectedLine(pgn_info, last + pgn_info.repetition_ms)))
    ELSE [last |-> last, lines |-> lines]

\* for pgn_name, pgn_info in PGNS_TO_INJECT.items(): the loop over the table, from
\* entry i on, threading the cursors and the lines written so far.
RECURSIVE InjectAll(_, _, _, _)
InjectAll(i, cursors, t_ms, lines) ==
    IF i > Len(PGNS_TO_INJECT) THEN [cursors |-> cursors, lines |-> lines]
    ELSE LET pgn_info == PGNS_TO_INJECT[i]
             r == InjectWhileDue(pgn_info, cursors[pgn_info.name], t_ms, lines)
         IN  InjectAll(i + 1, [cursors EXCEPT ![pgn_info.name] = r.last], t_ms, r.lines)

\* The cursor every PGN starts with.
InitialCursor == -1

\* The trackers before the first row, with the history fields of the model:
\* written (the lines written while the latest row was processed), injected (every
\* distinct line written so far by the injection loop), n_injected (how many lines
\* per PGN), t_ms and max_t_ms (the elapsed time of the latest valid row and the
\* largest seen), monotone (no valid row was earlier than the one before it) and
\* skipped (whether the latest row was skipped as malformed).
ConvInit ==
    [first_timestamp        |-> None,
     last_injection_time_ms |-> [n \in PgnNames |-> InitialCursor],
     current_timestamp      |-> None,
     t_ms                   |-> 0,
     max_t_ms               |-> 0,
     written                |-> << >>,
     injected               |-> {},
     n_injected             |-> [n \in PgnNames |-> 0],
     monotone               |-> TRUE,
     skipped                |-> FALSE]

\* The stamps of the lines of seq that carry pgn's identifier and are synthetic.
StampsOf(pgn_info, seq) ==
    LET IsOurs(line) == line.synthetic /\ line.can_id = pgn_info.can_id_hex
        ours == SelectSeq(seq, IsOurs)
    IN  [i \in 1..Len(ours) |-> ours[i].timestamp_ms]

SeqToSet(seq) == {seq[i] : i \in DOMAIN seq}

\* One valid row of the input: its timestamp (ms), identifier, IDE field, DLC and
\* data bytes.
Row(ts, can_id, ide, dlc, data) ==
    [ts |-> ts, can_id |-> can_id, ide |-> ide, dlc |-> dlc, data |-> data]

\* The epoch always taken from the current row.
RebaseTimeBase(first_timestamp, current_timestamp) == current_timestamp

\* if first_timestamp is None: first_timestamp = current_timestamp
EstablishTimeBase(first_timestamp, current_timestamp) ==
    IF first_timestamp = None THEN current_timestamp ELSE first_timestamp

\* The trackers and the history after a row that parses, inj being the cursors
\* and the lines the injection loop has left for it.
RowResult(c, row, inj) ==
    LET is_extended    == (row.ide = 1)
        first          == EstablishTimeBase(c.first_timestamp, row.ts)
        current_relative_time_ms == row.ts - first
        original_line  == format_output_line(current_relative_time_ms, row.can_id,
                                             row.dlc, row.data, is_extended, FALSE)
        new            == [n \in PgnNames |-> StampsOf(PgnInfo(n), inj.lines)]
    IN  [first_timestamp        |-> first,
         last_injection_time_ms |-> inj.cursors,
         current_timestamp      |-> row.ts,
         t_ms                   |-> current_relative_time_ms,
         max_t_ms               |-> IF current_relative_time_ms > c.max_t_ms
                                    THEN current_relative_time_ms ELSE c.max_t_ms,
         written                |-> Append(inj.lines, original_line),
         injected               |-> c.injected \cup SeqToSet(inj.lines),
         n_injected             |-> [n \in PgnNames |-> c.n_injected[n] + Len(new[n])],
         monotone               |-> c.monotone /\
                                    (c.current_timestamp = None \/ row.ts >= c.current_timestamp),
         skipped                |-> FALSE]

\* The body of the for loop over the rows, for a row that parses.
ProcessRow(c, row) ==
    RowResult(c, row, InjectAll(1, c.last_injection_time_ms,
                                row.ts - EstablishTimeBase(c.first_timestamp, row.ts), << >>))

\* A row whose fields do not parse: the except clause skips it.
SkipRow(c) == [c EXCEPT !.written = << >>, !.skipped = TRUE]

Min(a, b) == IF a < b THEN a ELSE b
Max(a, b) == IF a > b THEN a ELSE b

(***************************************************************************)
(* Python numbers.                                                         *)
(*                                                                         *)
(* An int of Python has arbitrary precision and a float is an IEEE 754     *)
(* binary64 value, whose 53-bit significand does not fit an integer of     *)
(* TLC.  A natural number is therefore held as the sequence of its digits  *)
(* in base 2^15, least significant first, without leading zero digits      *)
(* (<< >> is 0), and a float as sign, significand and exponent:            *)
(* (-1)^neg * man * 2^exp with man odd, or man = << >> for 0.0.  The       *)
(* operations round to nearest, ties to even, as binary64 does.  Values    *)
(* stay far from the exponent limits, so overflow to infinity and          *)
(* subnormals do not arise.                                                *)
(***************************************************************************)
Base == 32768

Limb(a, i) == IF i <= Len(a) THEN a[i] ELSE 0

RECURSIVE Trim(_)
Trim(a) == IF a = << >> \/ a[Len(a)] # 0 THEN a ELSE Trim(SubSeq(a, 1, Len(a) - 1))

RECURSIVE BigOfInt(_)
BigOfInt(n) == IF n = 0 THEN << >> ELSE <<n % Base>> \o BigOfInt(n \div Base)

\* The value of a natural below 2^31 as an integer.
BigToInt(a) == Limb(a, 1) + Base * Limb(a, 2) + Base * Base * Limb(a, 3)

\* -1, 0 or 1 as a < b, a = b or a > b.
BigCmp(a, b) ==
    IF Len(a) # Len(b) THEN (IF Len(a) < Len(b) THEN -1 ELSE 1)
    ELSE LET diff == {i \in 1..Len(a) : a[i] # b[i]}
         IN  IF diff = {} THEN 0
             ELSE LET k == CHOOSE k \in diff : \A j \in diff : j <= k
                  IN  IF a[k] < b[k] THEN -1 ELSE 1

RECURSIVE AddFrom(_, _, _, _)
AddFrom(a, b, i, carry) ==
    IF i > Len(a) /\ i > Len(b) THEN (IF carry = 0 THEN << >> ELSE <<carry>>)
    ELSE LET s == Limb(a, i) + Limb(b, i) + carry
         IN  <<s % Base>> \o AddFrom(a, b, i + 1, s \div Base)

BigAdd(a, b) == AddFrom(a, b, 1, 0)

RECURSIVE SubFrom(_, _, _, _)
SubFrom(a, b, i, borrow) ==
    IF i > Len(a) THEN << >>
    ELSE LET d == Limb(a, i) - Limb(b, i) - borrow
         IN  IF d < 0 THEN <<d + Base>> \o SubFrom(a, b, i + 1, 1)
             ELSE <<d>> \o SubFrom(a, b, i + 1, 0)

\* a - b for a >= b.
BigSub(a, b) == Trim(SubFrom(a, b, 1, 0))

RECURSIVE MulSmallFrom(_, _, _, _)
MulSmallFrom(a, m, i, carry) ==
    IF i > Len(a) THEN (IF carry = 0 THEN << >> ELSE <<carry>>)
    ELSE LET p == a[i] * m + carry
         IN  <<p % Base>> \o MulSmallFrom(a, m, i + 1, p \div Base)

\* a * m for 0 <= m < Base.
MulSmall(a, m) == IF m = 0 THEN << >> ELSE MulSmallFrom(a, m, 1, 0)

RECURSIVE MulFrom(_, _, _)
MulFrom(a, b, j) ==
    IF j > Len(b) THEN << >>
    ELSE BigAdd(MulSmall(a, b[j]), <<0>> \o MulFrom(a, b, j + 1))

BigMul(a, b) == Trim(MulFrom(a, b, 1))

\* The digits i, i-1, ..., 1 of a divided by m (0 < m < Base), rem carried in.
RECURSIVE DivSmallFrom(_, _, _, _)
DivSmallFrom(a, m, i, rem) ==
    IF i = 0 THEN [q |-> << >>, r |-> rem]
    ELSE LET cur   == rem * Base + a[i]
             lower == DivSmallFrom(a, m, i - 1, cur % m)
         IN  [q |-> Append(lower.q, cur \div m), r |-> lower.r]

\* a * 2^s and floor(a / 2^s).
ShiftLeft(a, s) ==
    IF a = << >> THEN << >>
    ELSE [i \in 1..(s \div 15) |-> 0] \o MulSmall(a, 2 ^ (s % 15))

ShiftRight(a, s) ==
    IF s \div 15 >= Len(a) THEN << >>
    ELSE LET top == SubSeq(a, (s \div 15) + 1, Len(a))
         IN  Trim(DivSmallFrom(top, 2 ^ (s % 15), Len(top), 0).q)

\* The number of bits of a: 0 for 0, else floor(log2(a)) + 1.
BitLen(a) ==
    IF a = << >> THEN 0
    ELSE 15 * (Len(a) - 1) + (CHOOSE k \in 1..15 : 2 ^ (k - 1) <= a[Len(a)] /\ a[Len(a)] < 2 ^ k)

IsOdd(a) == a # << >> /\ a[1] % 2 = 1

\* The largest q in q0 .. q0 + 2^(bit+1) - 1 with q * v <= rem.
RECURSIVE QuotientDigit(_, _, _, _)
QuotientDigit(rem, v, q0, bit) ==
    IF bit < 0 THEN q0
    ELSE IF BigCmp(MulSmall(v, q0 + 2 ^ bit), rem) <= 0
         THEN QuotientDigit(rem, v, q0 + 2 ^ bit, bit - 1)
         ELSE QuotientDigit(rem, v, q0, bit - 1)

\* Long division of the digits i, ..., 1 of u by v # 0, rem carried in.
RECURSIVE DivFrom(_, _, _, _)
DivFrom(u, v, i, rem) ==
    IF i = 0 THEN [q |-> << >>, r |-> rem]
    ELSE LET cur   == Trim(<<u[i]>> \o rem)
             digit == QuotientDigit(cur, v, 0, 14)
             lower == DivFrom(u, v, i - 1, BigSub(cur, MulSmall(v, digit)))
         IN  [q |-> Append(lower.q, digit), r |-> lower.r]

\* Quotient and remainder of u by v # 0.
BigDivMod(u, v) ==
    LET d == DivFrom(u, v, Len(u), << >>) IN [q |-> Trim(d.q), r |-> d.r]

\* The number of trailing zero bits of a # 0.
TrailingZeros(a) ==
    LET z == CHOOSE z \in 1..Len(a) : a[z] # 0 /\ \A j \in 1..(z - 1) : a[j] = 0
    IN  15 * (z - 1) + (CHOOSE k \in 0..14 : a[z] % (2 ^ (k + 1)) # 0 /\ a[z] % (2 ^ k) = 0)

FloatZero == [neg |-> FALSE, man |-> << >>, exp |-> 0]

\* The float (-1)^neg * man * 2^exp in its one representation.
Float(neg, man, exp) ==
    IF man = << >> THEN FloatZero
    ELSE LET tz == TrailingZeros(man)
         IN  [neg |-> neg, man |-> ShiftRight(man, tz), exp |-> exp + tz]

\* The binary64 nearest to (-1)^neg * n * 2^exp, ties to even.
RoundToFloat(neg, n, exp) ==
    IF BitLen(n) <= 53 THEN Float(neg, n, exp)
    ELSE LET s    == BitLen(n) - 53
             q    == ShiftRight(n, s)
             c    == BigCmp(BigSub(n, ShiftLeft(q, s)), ShiftLeft(<<1>>, s - 1))
             up   == c > 0 \/ (c = 0 /\ IsOdd(q))
         IN  Float(neg, IF up THEN BigAdd(q, <<1>>) ELSE q, exp + s)

\* float(n) for an int n held as sign and natural.
FloatOfBig(neg, n) == RoundToFloat(neg, n, 0)

\* float(n) for an integer n of the model.
FloatOfInt(n) == IF n < 0 THEN FloatOfBig(TRUE, BigOfInt(-n)) ELSE FloatOfBig(FALSE, BigOfInt(n))

\* x * y
FloatMul(x, y) == RoundToFloat(x.neg # y.neg, BigMul(x.man, y.man), x.exp + y.exp)

\* x / y for y # 0.0: the quotient to at least 55 bits and a sticky bit, rounded.
FloatDiv(x, y) ==
    IF x.man = << >> THEN FloatZero
    ELSE LET k == Max(0, 56 + BitLen(y.man) - BitLen(x.man))
             d == BigDivMod(ShiftLeft(x.man, k), y.man)
             n == BigAdd(ShiftLeft(d.q, 1), IF d.r = << >> THEN << >> ELSE <<1>>)
         IN  RoundToFloat(x.neg # y.neg, n, x.exp - y.exp - k - 1)

\* x + y
FloatAdd(x, y) ==
    LET e == Min(x.exp, y.exp)
        a == ShiftLeft(x.man, x.exp - e)
        b == ShiftLeft(y.man, y.exp - e)
    IN  IF x.neg = y.neg THEN RoundToFloat(x.neg, BigAdd(a, b), e)
        ELSE IF BigCmp(a, b) >= 0 THEN RoundToFloat(x.neg, BigSub(a, b), e)
        ELSE RoundToFloat(y.neg, BigSub(b, a), e)

\* The float written as the decimal num / den (den > 0), as a literal or a value
\* parsed from text is: the binary64 nearest to the quotient.  Also the true
\* division a / b of two ints.
FloatOfRatio(num, den) == FloatDiv(FloatOfInt(num), FloatOfInt(den))

\* int(x): truncation toward zero, as sign and natural.
IntOfFloat(x) ==
    LET mag == IF x.exp >= 0 THEN ShiftLeft(x.man, x.exp) ELSE ShiftRight(x.man, -x.exp)
    IN  [neg |-> x.neg /\ mag # << >>, mag |-> mag]

(***************************************************************************)
(* simulation_params.py: ParameterConversions                              *)
(*                                                                         *)
(* A human value is a float and a raw value an int, both as Python         *)
(* computes them: see "Python numbers" above.                              *)
(***************************************************************************)
\* The keys of CONVERSIONS.
ConversionNames ==
    {"total_mileage", "fuel_level", "vehicle_speed", "engine_rpm",
     "coolant_temp", "fuel_economy", "engine_torque"}

\* CONVERSIONS[param_name]['to_raw'](value): an int, as sign and natural.
ConversionToRaw(param_name, value) ==
    CASE param_name = "total_mileage" ->                       \* int(km * 1000 / 5)
           IntOfFloat(FloatDiv(FloatMul(value, FloatOfInt(1000)), FloatOfInt(5)))
      [] param_name = "fuel_level"    ->                       \* int(pct / 0.4)
           IntOfFloat(FloatDiv(value, FloatOfRatio(4, 10)))
      [] param_name = "vehicle_speed" ->                       \* int(kmh * 256)
           IntOfFloat(FloatMul(value, FloatOfInt(256)))
      [] param_name = "engine_rpm"    ->                       \* int(rpm / 0.125)
           IntOfFloat(FloatDiv(value, FloatOfRatio(125, 1000)))
      [] param_name = "coolant_temp"  ->                       \* int(celsius + 40)
           IntOfFloat(FloatAdd(value, FloatOfInt(40)))
      [] param_name = "fuel_economy"  ->                       \* int(kml * 512)
           IntOfFloat(FloatMul(value, FloatOfInt(512)))
      [] param_name = "engine_torque" ->                       \* int(pct + 125)
           IntOfFloat(FloatAdd(value, FloatOfInt(125)))

\* CONVERSIONS[param_name]['from_raw'](raw) for an int raw >= 0.  For coolant_temp
\* and engine_torque the result is an int, held as the float equal to it.
ConversionFromRaw(param_name, raw) ==
    CASE param_name = "total_mileage" ->                       \* (raw * 5) / 1000
           FloatDiv(FloatOfBig(FALSE, MulSmall(raw, 5)), FloatOfInt(1000))
      [] param_name = "fuel_level"    ->                       \* raw * 0.4
           FloatMul(FloatOfBig(FALSE, raw), FloatOfRatio(4, 10))
      [] param_name = "vehicle_speed" ->                       \* raw / 256
           FloatDiv(FloatOfBig(FALSE, raw), FloatOfInt(256))
      [] param_name = "engine_rpm"    ->                       \* raw * 0.125
           FloatMul(FloatOfBig(FALSE, raw), FloatOfRatio(125, 1000))
      [] param_name = "coolant_temp"  ->                       \* raw - 40
           FloatAdd(FloatOfBig(FALSE, raw), FloatOfInt(-40))
      [] param_name = "fuel_economy"  ->                       \* raw / 512
           FloatDiv(FloatOfBig(FALSE, raw), FloatOfInt(512))
      [] param_name = "engine_torque" ->                       \* raw - 125
           FloatAdd(FloatOfBig(FALSE, raw), FloatOfInt(-125))

\* CONVERSIONS[param_name]['range'], in the parameter's unit.
ConversionRange(param_name) ==
    CASE param_name = "total_mileage" -> <<0, 200000>>
      [] param_name = "fuel_level"    -> <<0, 100>>
      [] param_name = "vehicle_speed" -> <<0, 200>>
      [] param_name = "engine_rpm"    -> <<0, 5000>>
      [] param_name = "coolant_temp"  -> <<0, 120>>
      [] param_name = "fuel_economy"  -> <<0, 50>>
      [] param_name = "engine_torque" -> <<0, 130>>

\* CONVERSIONS[param_name]['precision'] as the fraction <<numerator, denominator>>.
ConversionPrecision(param_name) ==
    CASE param_name = "total_mileage" -> <<5, 1000>>           \* 0.005
      [] param_name = "fuel_level"    -> <<4, 10>>             \* 0.4
      [] param_name = "vehicle_speed" -> <<1, 256>>            \* 1/256
      [] param_name = "engine_rpm"    -> <<125, 1000>>         \* 0.125
      [] param_name = "coolant_temp"  -> <<1, 1>>              \* 1
      [] param_name = "fuel_economy"  -> <<1, 512>>            \* 1/512
      [] param_name = "engine_torque" -> <<1, 1>>              \* 1

\* 2^bits - 1
AllOnes(bits) == BigSub(ShiftLeft(<<1>>, bits), <<1>>)

\* max(0, min(limit, raw_value)) for an int raw_value held as sign and natural.
ClampRaw(limit, raw_value) ==
    IF raw_value.neg THEN << >>
    ELSE IF BigCmp(raw_value.mag, limit) > 0 THEN limit ELSE raw_value.mag

\* to_raw with every parameter validated as an 8-bit one.
to_raw_narrow(param_name, value) ==
    IF param_name \in ConversionNames
    THEN ClampRaw(AllOnes(8), ConversionToRaw(param_name, value))
    ELSE << >>

\* to_raw without the validation of the range of the raw value.
to_raw_unclamped(param_name, value) ==
    IF param_name \in ConversionNames THEN ConversionToRaw(param_name, value).mag ELSE << >>

\* The limit to_raw validates param_name against: 255, 65535 or 4294967295.
RawLimit(param_name) ==
    IF param_name \in {"fuel_level", "coolant_temp", "engine_torque"}
    THEN AllOnes(8)                                     \* max(0, min(255, raw_value))
    ELSE IF param_name \in {"vehicle_speed", "engine_rpm", "fuel_economy"}
    THEN AllOnes(16)                                    \* max(0, min(65535, raw_value))
    ELSE AllOnes(32)                                    \* max(0, min(4294967295, raw_value))

\* ParameterConversions.to_raw: the transform, then the clamp chosen by the
\* parameter's name; 0 for a name that CONVERSIONS does not hold.
to_raw(param_name, value) ==
    IF param_name \in ConversionNames
    THEN ClampRaw(RawLimit(param_name), ConversionToRaw(param_name, value))
    ELSE << >>

\* ParameterConversions.from_raw: 0.0 for a name that CONVERSIONS does not hold.
from_raw(param_name, raw_value) ==
    IF param_name \in ConversionNames THEN ConversionFromRaw(param_name, raw_value)
    ELSE FloatZero

\* The float a caller passes for a human value written in thousandths
\* (2000.0 RPM is 2000000).
HumanValue(thousandths) == FloatOfRatio(thousandths, 1000)

\* to_raw(param_name, human_value) as set_parameter calls it, the human value
\* written in thousandths and the result an integer of the model (below 2^31).
ToRawOfHuman(param_name, thousandths) == BigToInt(to_raw(param_name, HumanValue(thousandths)))

(***************************************************************************)
(* simulation_params.py: SimulationParameters                              *)
(***************************************************************************)
\* FRAME_MAP: frame id -> the parameters it carries, in the dict's order, each
\* with its byte positions (0-based) and type.
FRAME_MAP ==
    (\h18FEC1EE :> << [param |-> "total_mileage", bytes |-> <<0, 1, 2, 3>>, type |-> "uint32_le"] >>) @@
    (\h18FEFC47 :> << [param |-> "fuel_level",    bytes |-> <<1>>,          type |-> "uint8"] >>) @@
    (\h18FEF100 :> << [param |-> "vehicle_speed", bytes |-> <<1, 2>>,       type |-> "uint16_le"] >>) @@
    (\h0CF00400 :> << [param |-> "engine_rpm",    bytes |-> <<3, 4>>,       type |-> "uint16_le"],
                      [param |-> "engine_torque", bytes |-> <<2>>,          type |-> "uint8"] >>) @@
    (\h18FEEE00 :> << [param |-> "coolant_temp",  bytes |-> <<0>>,          type |-> "uint8"] >>) @@
    (\h18FEF200 :> << [param |-> "fuel_economy",  bytes |-> <<2, 3>>,       type |-> "uint16_le"] >>)

\* The keys of self.parameters.
ParameterNames ==
    {"total_mileage", "fuel_level", "vehicle_speed", "engine_rpm",
     "coolant_temp", "fuel_economy", "engine_torque"}

\* AtomicParameter(): enabled = False, raw_value = 0, last_update_time = 0.0.
AtomicParameter == [enabled |-> FALSE, raw_value |-> 0, last_update_time |-> 0]

\* within_seconds: float = 5.0
DefaultWindow == 5

\* time.time() when the store is constructed: far more seconds after the zero of
\* the clock than any window.
StartTime == 100 * DefaultWindow

\* The control threads that call set_parameter.
Writers == {"ctl1", "ctl2"}

\* The locals of a set_parameter call that is not running.  History fields:
\* notified, the callbacks the latest call invoked, with their arguments, and
\* error, the exception the latest call raised to its caller.
SpIdle ==
    [pc |-> "idle", param_name |-> "", enabled |-> FALSE, human_value |-> 0,
     old_enabled |-> FALSE, old_raw |-> 0, new_raw |-> 0, callback |-> 0,
     any_enabled |-> FALSE, notified |-> << >>, error |-> "None"]

\* The enabled field of a parameter, as AtomicParameter.get_state reads it.
ReadEnabled(param_name) == parameters[param_name].enabled

\* The raw_value field of a parameter, as AtomicParameter.get_state reads it.
ReadRaw(param_name) == parameters[param_name].raw_value

\* is_simulation_enabled: self._simulation_enabled.is_set()
is_simulation_enabled == simulation_enabled

\* get_frame_modifications: self.FRAME_MAP.get(frame_id, {})
get_frame_modifications(frame_id) ==
    IF frame_id \in DOMAIN FRAME_MAP THEN FRAME_MAP[frame_id] ELSE << >>

\* The loop of has_frame_modifications that answers for the first key alone.
FirstKeyEnabled(frame_params, i) ==
    i <= Len(frame_params) /\ ReadEnabled(frame_params[i].param)

\* The loop of has_frame_modifications from key i on: return True at the first
\* enabled parameter, False when the keys are exhausted.
RECURSIVE AnyKeyEnabled(_, _)
AnyKeyEnabled(frame_params, i) ==
    IF i > Len(frame_params) THEN FALSE
    ELSE IF frame_params[i].param \in ParameterNames /\ ReadEnabled(frame_params[i].param)
         THEN TRUE
         ELSE AnyKeyEnabled(frame_params, i + 1)

\* has_frame_modifications(frame_id)
has_frame_modifications(frame_id) ==
    IF frame_id \notin DOMAIN FRAME_MAP THEN FALSE
    ELSE AnyKeyEnabled(FRAME_MAP[frame_id], 1)

\* The flag that is only ever set.
StickyFlag(flag, any_enabled) == flag \/ any_enabled

\* _update_simulation_state: set() when any_enabled, clear() otherwise.
UpdatedFlag(flag, any_enabled) == any_enabled

\* The callbacks whose body raises.
FailingCallbacks == {"cb_raises"}

\* register_update_callback that appends without looking.
register_unchecked(callbacks, callback) == Append(callbacks, callback)

\* register_update_callback: if callback not in self._update_callbacks: append
register_update_callback(callbacks, callback) ==
    IF callback \in SeqToSet(callbacks) THEN callbacks ELSE Append(callbacks, callback)

\* unregister_update_callback: if callback in self._update_callbacks: remove, which
\* deletes the first occurrence.
unregister_update_callback(callbacks, callback) ==
    IF callback \in SeqToSet(callbacks)
    THEN LET i == CHOOSE i \in DOMAIN callbacks :
                     callbacks[i] = callback /\ \A j \in 1..(i - 1) : callbacks[j] # callback
         IN  SubSeq(callbacks, 1, i - 1) \o SubSeq(callbacks, i + 1, Len(callbacks))
    ELSE callbacks

\* No register or unregister call yet.
NoRegistration == [op |-> "none", callback |-> "", before |-> << >>]

\* A call of register_update_callback.
RegisterCall(callbacks) ==
    /\ \E callback \in callbacks :
          /\ update_callbacks' = register_update_callback(update_callbacks, callback)
          /\ reg' = [op |-> "register", callback |-> callback, before |-> update_callbacks]
    /\ UNCHANGED <<parameters, simulation_enabled, sp, mf, conv, conv2, cv,
                 recent_changes, otherVars>>

\* A call of unregister_update_callback.
UnregisterCall(callbacks) ==
    /\ \E callback \in callbacks :
          /\ update_callbacks' = unregister_update_callback(update_callbacks, callback)
          /\ reg' = [op |-> "unregister", callback |-> callback, before |-> update_callbacks]
    /\ UNCHANGED <<parameters, simulation_enabled, sp, mf, conv, conv2, cv,
                 recent_changes, otherVars>>

(* set_parameter, one step per access to the shared state. *)

\* The call: if param_name in self.parameters, go on; else return at once.
SP_Call(w, names, values) ==
    /\ sp[w].pc = "idle"
    /\ \E name \in names, enabled \in BOOLEAN, human_value \in values :
          /\ (~enabled => human_value = 0)         \* the default human_value
          /\ sp' = [sp EXCEPT ![w] =
                      [SpIdle EXCEPT !.pc = IF name \in ParameterNames
                                            THEN "L198_enabled" ELSE "idle",
                                     !.param_name = name,
                                     !.enabled = enabled,
                                     !.human_value = human_value]]
    /\ UNCHANGED <<parameters, simulation_enabled, update_callbacks, mf, conv, conv2, cv, reg,
                 recent_changes, otherVars>>

\* old_enabled, old_raw = param.get_state(): the load of enabled ...
SP_GetOldEnabled(w) ==
    /\ sp[w].pc = "L198_enabled"
    /\ sp' = [sp EXCEPT ![w].old_enabled = ReadEnabled(sp[w].param_name),
                        ![w].pc = "L198_raw"]
    /\ UNCHANGED <<parameters, simulation_enabled, update_callbacks, mf, conv, conv2, cv, reg,
                 recent_changes, otherVars>>

\* ... and the load of raw_value.
SP_GetOldRaw(w) ==
    /\ sp[w].pc = "L198_raw"
    /\ sp' = [sp EXCEPT ![w].old_raw = ReadRaw(sp[w].param_name),
                        ![w].pc = "L200"]
    /\ UNCHANGED <<parameters, simulation_enabled, update_callbacks, mf, conv, conv2, cv, reg,
                 recent_changes, otherVars>>

\* set_enabled on a store whose names share one AtomicParameter object.
SP_SetEnabledShared(w) ==
    /\ sp[w].pc = "L200"
    /\ parameters' = [n \in ParameterNames |->
                        [parameters[n] EXCEPT !.enabled = sp[w].enabled,
                                              !.last_update_time = now]]
    /\ sp' = [sp EXCEPT ![w].new_raw = 0,
                        ![w].pc = IF sp[w].enabled THEN "L203" ELSE "L207"]
    /\ UNCHANGED <<simulation_enabled, update_callbacks, mf, conv, conv2, cv, reg,
                 recent_changes, otherVars>>

\* param.set_enabled(enabled); new_raw = 0
SP_SetEnabled(w) ==
    /\ sp[w].pc = "L200"
    /\ parameters' = [parameters EXCEPT ![sp[w].param_name].enabled = sp[w].enabled,
                                        ![sp[w].param_name].last_update_time = now]
    /\ sp' = [sp EXCEPT ![w].new_raw = 0,
                        ![w].pc = IF sp[w].enabled THEN "L203" ELSE "L207"]
    /\ UNCHANGED <<simulation_enabled, update_callbacks, mf, conv, conv2, cv, reg,
                 recent_changes, otherVars>>

\* param.set_value(new_raw)
set_value(w, new_raw) ==
    /\ parameters' = [parameters EXCEPT ![sp[w].param_name].raw_value = new_raw,
                                        ![sp[w].param_name].last_update_time = now]
    /\ sp' = [sp EXCEPT ![w].new_raw = new_raw, ![w].pc = "L207"]
    \* History: a read of the pair by modify_frame that has loaded enabled
    \* and not yet raw_value may now load this call's value.
    /\ mf' = IF mf.pc = "L72_raw" /\ mf.modifications[mf.i].param = sp[w].param_name
             THEN [mf EXCEPT !.paired = @ \cup {new_raw}]
             ELSE mf

\* if enabled: new_raw = to_raw(param_name, human_value); param.set_value(new_raw)
SP_SetValue(w) ==
    /\ sp[w].pc = "L203"
    /\ set_value(w, ToRawOfHuman(sp[w].param_name, sp[w].human_value))
    /\ UNCHANGED <<simulation_enabled, update_callbacks, conv, conv2, cv, reg,
                 recent_changes, otherVars>>

\* The change check that compares the enabled states alone.
SP_TrackEnabledChange(w) ==
    /\ sp[w].pc = "L207"
    /\ sp' = [sp EXCEPT ![w].callback = 1,
                        ![w].pc = IF sp[w].enabled # sp[w].old_enabled
                                  THEN "L211" ELSE "L261"]
    /\ recent_changes' = IF sp[w].enabled # sp[w].old_enabled
                         THEN [recent_changes EXCEPT ![sp[w].param_name] = now]
                         ELSE recent_changes
    /\ UNCHANGED <<parameters, simulation_enabled, update_callbacks, mf, conv, conv2, cv, reg,
                 otherVars>>

\* if enabled != old_enabled or new_raw != old_raw: notify, else go to line 218.
SP_TrackChange(w) ==
    /\ sp[w].pc = "L207"
    /\ sp' = [sp EXCEPT ![w].callback = 1,
                        ![w].pc = IF sp[w].enabled # sp[w].old_enabled
                                     \/ sp[w].new_raw # sp[w].old_raw
                                  THEN "L211" ELSE "L261"]
    \* self._recent_changes[param_name] = time.time()
    /\ recent_changes' = IF sp[w].enabled # sp[w].old_enabled
                            \/ sp[w].new_raw # sp[w].old_raw
                         THEN [recent_changes EXCEPT ![sp[w].param_name] = now]
                         ELSE recent_changes
    /\ UNCHANGED <<parameters, simulation_enabled, update_callbacks, mf, conv, conv2, cv, reg,
                 otherVars>>

\* The loop without try/except: the exception of a callback ends the call.
SP_NotifyUnguarded(w) ==
    /\ sp[w].pc = "L211"
    /\ sp' = IF sp[w].callback <= Len(update_callbacks)
             THEN LET callback == update_callbacks[sp[w].callback]
                      entry    == [callback |-> callback, param_name |-> sp[w].param_name,
                                   enabled |-> sp[w].enabled, raw |-> sp[w].new_raw,
                                   raised |-> callback \in FailingCallbacks]
                  IN  IF callback \in FailingCallbacks
                      THEN [sp EXCEPT ![w] = [SpIdle EXCEPT !.notified = Append(sp[w].notified, entry),
                                                            !.error = "Exception"]]
                      ELSE [sp EXCEPT ![w].notified = Append(@, entry), ![w].callback = @ + 1]
             ELSE [sp EXCEPT ![w].pc = "L261"]
    /\ UNCHANGED <<parameters, simulation_enabled, update_callbacks, mf, conv, conv2, cv, reg,
                 recent_changes, otherVars>>

\* for callback in self._update_callbacks: try callback(...) except Exception: pass
SP_Notify(w) ==
    /\ sp[w].pc = "L211"
    /\ sp' = IF sp[w].callback <= Len(update_callbacks)
             THEN [sp EXCEPT ![w].notified =
                        Append(@, [callback |-> update_callbacks[sp[w].callback],
                                   param_name |-> sp[w].param_name,
                                   enabled |-> sp[w].enabled,
                                   raw |-> sp[w].new_raw,
                                   raised |-> update_callbacks[sp[w].callback]
                                                \in FailingCallbacks]),
                             ![w].callback = @ + 1]
             ELSE [sp EXCEPT ![w].pc = "L261"]
    /\ UNCHANGED <<parameters, simulation_enabled, update_callbacks, mf, conv, conv2, cv, reg,
                 recent_changes, otherVars>>

\* _update_simulation_state: any_enabled = any(param.enabled for param in ...)
SP_ScanAny(w) ==
    /\ sp[w].pc = "L261"
    /\ sp' = [sp EXCEPT ![w].any_enabled = \E n \in ParameterNames : ReadEnabled(n),
                        ![w].pc = "L262"]
    /\ UNCHANGED <<parameters, simulation_enabled, update_callbacks, mf, conv, conv2, cv, reg,
                 recent_changes, otherVars>>

\* if any_enabled: self._simulation_enabled.set() else: ...clear(); return
SP_SetFlag(w) ==
    /\ sp[w].pc = "L262"
    /\ simulation_enabled' = UpdatedFlag(simulation_enabled, sp[w].any_enabled)
    /\ sp' = [sp EXCEPT ![w] = [SpIdle EXCEPT !.notified = sp[w].notified]]
    /\ UNCHANGED <<parameters, update_callbacks, mf, conv, conv2, cv, reg,
                 recent_changes, otherVars>>

\* A step of a set_parameter call that is running.
SP_Step(w) ==
    \/ SP_GetOldEnabled(w)
    \/ SP_GetOldRaw(w)
    \/ SP_SetEnabled(w)
    \/ SP_SetValue(w)
    \/ SP_TrackChange(w)
    \/ SP_Notify(w)
    \/ SP_ScanAny(w)
    \/ SP_SetFlag(w)

(***************************************************************************)
(* frame_modifier.py: FrameModifier                                        *)
(***************************************************************************)
\* A can.Message: the fields modify_frame reads, and channel, one that it does
\* not pass on to the message it builds.
Message(arbitration_id, data, is_extended_id, timestamp, channel) ==
    [arbitration_id |-> arbitration_id, data |-> data,
     is_extended_id |-> is_extended_id, timestamp |-> timestamp, channel |-> channel]

NoMessage == Message(0, << >>, FALSE, 0, "")

\* data[byte_pos] = value, byte_pos counted from 0.
SetByte(data, byte_pos, value) == [data EXCEPT ![byte_pos + 1] = value]

\* raw_value & 0xFF after a shift right by 8 * k bits.
ByteOf(raw_value, k) ==
    CASE k = 0 -> raw_value % 256
      [] k = 1 -> (raw_value \div 256) % 256
      [] k = 2 -> (raw_value \div 65536) % 256
      [] k = 3 -> (raw_value \div 16777216) % 256

InRange(byte_pos, data) == 0 <= byte_pos /\ byte_pos < Len(data)

\* _inject_uint8
inject_uint8(data, byte_positions, raw_value) ==
    IF Len(byte_positions) = 1 /\ InRange(byte_positions[1], data)
    THEN SetByte(data, byte_positions[1], ByteOf(raw_value, 0))
    ELSE data

\* _inject_uint16_le written high byte first, low byte second.
inject_uint16_be(data, byte_positions, raw_value) ==
    IF Len(byte_positions) = 2
       /\ InRange(byte_positions[1], data) /\ InRange(byte_positions[2], data)
    THEN SetByte(SetByte(data, byte_positions[1], ByteOf(raw_value, 1)),
                 byte_positions[2], ByteOf(raw_value, 0))
    ELSE data

\* _inject_uint16_le
inject_uint16_le(data, byte_positions, raw_value) ==
    IF Len(byte_positions) = 2
       /\ InRange(byte_positions[1], data) /\ InRange(byte_positions[2], data)
    THEN SetByte(SetByte(data, byte_positions[1], ByteOf(raw_value, 0)),
                 byte_positions[2], ByteOf(raw_value, 1))
    ELSE data

\* _inject_uint32_le
inject_uint32_le(data, byte_positions, raw_value) ==
    IF Len(byte_positions) = 4
       /\ \A k \in 1..4 : InRange(byte_positions[k], data)
    THEN SetByte(SetByte(SetByte(SetByte(data,
             byte_positions[1], ByteOf(raw_value, 0)),
             byte_positions[2], ByteOf(raw_value, 1)),
             byte_positions[3], ByteOf(raw_value, 2)),
             byte_positions[4], ByteOf(raw_value, 3))
    ELSE data

\* _inject_parameter: the injector looked up by byte_info['type'], if there is one.
inject_parameter(data, byte_info, raw_value) ==
    CASE byte_info.type = "uint8"     -> inject_uint8(data, byte_info.bytes, raw_value)
      [] byte_info.type = "uint16_le" -> inject_uint16_le(data, byte_info.bytes, raw_value)
      [] byte_info.type = "uint32_le" -> inject_uint32_le(data, byte_info.bytes, raw_value)
      [] OTHER                        -> data

\* History: the raw value that belongs with the latest write of param_name's
\* enabled field: the one its writer is about to store (between lines 200 and
\* 204 of an enabling call), else the stored one.
PairedRaw(param_name) ==
    IF \E w \in Writers : sp[w].pc = "L203" /\ sp[w].param_name = param_name
    THEN LET w == CHOOSE w \in Writers : sp[w].pc = "L203" /\ sp[w].param_name = param_name
         IN  ToRawOfHuman(param_name, sp[w].human_value)
    ELSE parameters[param_name].raw_value

NoObservation == [param |-> "", enabled |-> FALSE, raw |-> 0, paired |-> {}]

\* The locals of a modify_frame call that is not running.  History fields:
\* again and prior (the call was given the result of the call before it, and that
\* result), same_object (the call returned msg itself), paired (the raw values that belong
\* with the enabled flag the call has loaded) and observed (the latest pair the
\* call read at line 72).
MfIdle ==
    [pc |-> "idle", msg |-> NoMessage, modifications |-> << >>, i |-> 0,
     has_modifications |-> FALSE, modified_data |-> << >>, enabled |-> FALSE,
     result |-> NoMessage, same_object |-> FALSE,
     paired |-> {}, observed |-> NoObservation,
     again |-> FALSE, prior |-> NoMessage]

\* A return that always builds a new message from msg.
ReturnCopy(m) ==
    [m EXCEPT !.pc = "returned",
              !.result = [arbitration_id |-> m.msg.arbitration_id, data |-> m.msg.data,
                          is_extended_id |-> m.msg.is_extended_id,
                          timestamp |-> m.msg.timestamp, channel |-> "None"],
              !.same_object = FALSE]

\* return msg
ReturnOriginal(m) == [m EXCEPT !.pc = "returned", !.result = m.msg, !.same_object = TRUE]

(* modify_frame, one step per access to the shared state. *)

MF_Call(msgs) ==
    /\ mf.pc = "idle"
    /\ \E msg \in msgs : mf' = [MfIdle EXCEPT !.pc = "L44", !.msg = msg]
    /\ UNCHANGED <<parameters, simulation_enabled, update_callbacks, sp, conv, conv2, cv, reg,
                 recent_changes, otherVars>>

\* if not self.simulation_params.is_simulation_enabled(): return msg
MF_CheckSimulation ==
    /\ mf.pc = "L44"
    /\ mf' = IF ~is_simulation_enabled THEN ReturnOriginal(mf)
             ELSE [mf EXCEPT !.pc = "L49"]
    /\ UNCHANGED <<parameters, simulation_enabled, update_callbacks, sp, conv, conv2, cv, reg,
                 recent_changes, otherVars>>

\* if not has_frame_modifications(frame_id): return msg
\* modifications = get_frame_modifications(frame_id); has_modifications = False
MF_CheckFrame ==
    /\ mf.pc = "L49"
    /\ mf' = IF ~has_frame_modifications(mf.msg.arbitration_id) THEN ReturnOriginal(mf)
             ELSE [mf EXCEPT !.pc = "L57", !.i = 1,
                             !.modifications = get_frame_modifications(mf.msg.arbitration_id)]
    /\ UNCHANGED <<parameters, simulation_enabled, update_callbacks, sp, conv, conv2, cv, reg,
                 recent_changes, otherVars>>

\* for param_name in modifications.keys(): enabled, _ = get_parameter_state(param_name);
\* if enabled: has_modifications = True; break
MF_ScanKey ==
    /\ mf.pc = "L57"
    /\ mf' = IF mf.i > Len(mf.modifications) THEN [mf EXCEPT !.pc = "L64"]
             ELSE IF ReadEnabled(mf.modifications[mf.i].param)
                  THEN [mf EXCEPT !.has_modifications = TRUE, !.pc = "L64"]
                  ELSE [mf EXCEPT !.i = @ + 1]
    /\ UNCHANGED <<parameters, simulation_enabled, update_callbacks, sp, conv, conv2, cv, reg,
                 recent_changes, otherVars>>

\* if not has_modifications: return msg;  modified_data = bytearray(msg.data)
MF_CheckModifications ==
    /\ mf.pc = "L64"
    /\ mf' = IF ~mf.has_modifications THEN ReturnOriginal(mf)
             ELSE [mf EXCEPT !.pc = "L72_enabled", !.i = 1, !.modified_data = mf.msg.data]
    /\ UNCHANGED <<parameters, simulation_enabled, update_callbacks, sp, conv, conv2, cv, reg,
                 recent_changes, otherVars>>

\* for param_name, byte_info in modifications.items():
\*     enabled, raw_value = get_parameter_state(param_name): the load of enabled ...
MF_ReadEnabled ==
    /\ mf.pc = "L72_enabled"
    /\ mf' = IF mf.i > Len(mf.modifications) THEN [mf EXCEPT !.pc = "L77"]
             ELSE [mf EXCEPT !.enabled = ReadEnabled(mf.modifications[mf.i].param),
                             !.paired = {PairedRaw(mf.modifications[mf.i].param)},
                             !.pc = "L72_raw"]
    /\ UNCHANGED <<parameters, simulation_enabled, update_callbacks, sp, conv, conv2, cv, reg,
                 recent_changes, otherVars>>

\* The overlay written to the data of msg itself as well.
MF_ReadRawAndInjectInPlace ==
    /\ mf.pc = "L72_raw"
    /\ LET byte_info == mf.modifications[mf.i]
           raw_value == ReadRaw(byte_info.param)
       IN  mf' = [mf EXCEPT !.modified_data = IF mf.enabled
                                              THEN inject_parameter(@, byte_info, raw_value)
                                              ELSE @,
                            !.msg.data = IF mf.enabled
                                         THEN inject_parameter(@, byte_info, raw_value)
                                         ELSE @,
                            !.observed = [param |-> byte_info.param, enabled |-> mf.enabled,
                                          raw |-> raw_value, paired |-> mf.paired],
                            !.i = @ + 1,
                            !.pc = "L72_enabled"]
    /\ UNCHANGED <<parameters, simulation_enabled, update_callbacks, sp, conv, conv2, cv, reg,
                 recent_changes, otherVars>>

\* ... the load of raw_value; if enabled: self._inject_parameter(...)
MF_ReadRawAndInject ==
    /\ mf.pc = "L72_raw"
    /\ LET byte_info == mf.modifications[mf.i]
           raw_value == ReadRaw(byte_info.param)
       IN  mf' = [mf EXCEPT !.modified_data = IF mf.enabled
                                              THEN inject_parameter(@, byte_info, raw_value)
                                              ELSE @,
                            !.observed = [param |-> byte_info.param, enabled |-> mf.enabled,
                                          raw |-> raw_value, paired |-> mf.paired],
                            !.i = @ + 1,
                            !.pc = "L72_enabled"]
    /\ UNCHANGED <<parameters, simulation_enabled, update_callbacks, sp, conv, conv2, cv, reg,
                 recent_changes, otherVars>>

\* modified_msg = can.Message(arbitration_id, data, is_extended_id, timestamp); return it
MF_BuildMessage ==
    /\ mf.pc = "L77"
    /\ mf' = [mf EXCEPT !.pc = "returned",
                        !.result = Message(mf.msg.arbitration_id, mf.modified_data,
                                           mf.msg.is_extended_id, mf.msg.timestamp, "None"),
                        !.same_object = FALSE]
    /\ UNCHANGED <<parameters, simulation_enabled, update_callbacks, sp, conv, conv2, cv, reg,
                 recent_changes, otherVars>>

\* The caller has taken the result.
MF_Return ==
    /\ mf.pc = "returned"
    /\ mf' = MfIdle
    /\ UNCHANGED <<parameters, simulation_enabled, update_callbacks, sp, conv, conv2, cv, reg,
                 recent_changes, otherVars>>



MF_Step ==
    \/ MF_CheckSimulation
    \/ MF_CheckFrame
    \/ MF_ScanKey
    \/ MF_CheckModifications
    \/ MF_ReadEnabled
    \/ MF_ReadRawAndInject
    \/ MF_BuildMessage
    \/ MF_Return

(***************************************************************************)
(* The inputs the model draws.                                             *)
(***************************************************************************)
\* Timestamps (ms) of the first valid row.
FirstStamps == {300, 7250}

\* Elapsed times (ms, relative to the first valid row) the later rows may have, in
\* any order: before the epoch, at it, just before, at and just after the
\* boundaries of the 50, 500 and 1000 ms PGNs, and up to MaxElapsed.
ElapsedTimes ==
    {e \in {-100, 0, 30, 49, 50, 499, 700, 999, 1000, 1700, 2000, 2500, 2501} :
        e <= MaxElapsed}

\* The frames the log's rows carry: an extended J1939 frame and a standard one.
RowFrames == { [can_id |-> \h18FEF100, ide |-> 1, dlc |-> 8,
                data |-> <<17, 34, 51, 68, 85, 102, 119, 136>>],
               [can_id |-> \h7E0, ide |-> 0, dlc |-> 3, data |-> <<1, 2, 3>>] }

NextStamps(c) ==
    IF c.first_timestamp = None THEN FirstStamps
    ELSE {c.first_timestamp + e : e \in ElapsedTimes}

\* The names set_parameter is called with: three parameters, two of them in the
\* same frame, and a name that is not registered.
SetNames == {"engine_rpm", "engine_torque", "fuel_level", "no_such_parameter"}

\* The human values (thousandths) set_parameter is called with: below every
\* range, the default, inside the ranges, and above the 8- and 16-bit widths.
HumanValues == {-50000, 0, 100000, 2000000, 9000000}

\* The messages modify_frame is called with: a frame of two parameters with eight
\* data bytes and with four, a frame of one parameter, and a standard frame that
\* FRAME_MAP does not list.
Messages ==
    { Message(\h0CF00400, <<17, 34, 51, 68, 85, 102, 119, 136>>, TRUE, 1250, "can0"),
      Message(\h0CF00400, <<17, 34, 51, 68>>, TRUE, 1250, "can0"),
      Message(\h18FEFC47, <<17, 34, 51, 68, 85, 102, 119, 136>>, TRUE, 1300, "can0"),
      Message(\h7E0, <<17, 34, 51, 68, 85, 102, 119, 136>>, FALSE, 1400, "can0") }

\* The frame ids has_frame_modifications is asked about.
FrameIds == DOMAIN FRAME_MAP \cup {\h7E0, \h18FEE500}

\* No was_recently_changed call yet.  at, seen_update and seen_change are history
\* fields: the time of the call, and last_update_time and the entry of
\* _recent_changes of the parameter at that time (None when there is none).
NoQuery ==
    [op |-> "none", param_name |-> "", within_seconds |-> 0, result |-> FALSE,
     at |-> 0, seen_update |-> None, seen_change |-> None]

StoreInit ==
    /\ parameters = [n \in ParameterNames |-> AtomicParameter]
    /\ simulation_enabled = FALSE
    /\ update_callbacks = << >>
    /\ sp = [w \in Writers |-> SpIdle]
    /\ mf = MfIdle
    /\ reg = NoRegistration
    /\ recent_changes = [n \in ParameterNames |-> None]
    /\ now = StartTime
    /\ query = NoQuery

\* No call of ParameterConversions yet.  error is the exception a call raised.
NoConversion ==
    [op |-> "none", param_name |-> "", value |-> FloatZero, raw_in |-> << >>,
     raw |-> << >>, human |-> FloatZero, error |-> "None"]

ConvertInit == cv = NoConversion

\* The names the conversions are called with: the keys and a name that is none.
ConvertNames == ConversionNames \cup {"no_such_parameter"}

\* The entry of FRAME_MAP that carries param_name.
FrameMapEntry(param_name) ==
    CHOOSE e \in UNION {{FRAME_MAP[id][k] : k \in DOMAIN FRAME_MAP[id]} : id \in DOMAIN FRAME_MAP} :
        e.param = param_name

\* The number of bits param_name has in its frame.
EncodingBits(param_name) == 8 * Len(FrameMapEntry(param_name).bytes)

\* The human values the conversions are called with, as decimals <<n, d>> for
\* n / d: the tenths a slider gives, values between them, negative values, the
\* ends of the ranges, and values whose transform passes 8, 16 and 32 bits.
DecimalInputs ==
    {<<k, 10>> : k \in 0..MaxTenths} \cup
    {<<-50, 1>>, <<-1, 10>>, <<17, 1000>>, <<1005, 1000>>, <<1024, 10>>, <<50, 1>>,
     <<100, 1>>, <<120, 1>>,
     <<130, 1>>, <<131, 1>>, <<200, 1>>, <<256, 1>>, <<5000, 1>>, <<9000, 1>>,
     <<200000, 1>>, <<21474837, 1>>, <<30000000, 1>>}

\* The raw values from_raw is called with for param_name.
RawInputs(param_name) ==
    IF param_name \in ConversionNames
    THEN {BigOfInt(r) : r \in {r \in 0..MaxRawSample : r < 2 ^ Min(EncodingBits(param_name), 16)}}
         \cup {AllOnes(EncodingBits(param_name)),
               BigSub(AllOnes(EncodingBits(param_name)), <<1>>)}
    ELSE {BigOfInt(0), BigOfInt(3), BigOfInt(255)}

(***************************************************************************)
(* SpecSched: one run of convert_and_inject over rows in any order.        *)
(***************************************************************************)
\* No row read by either run.  pending holds the rows the first run has read and
\* the second has not; store1 and store2 are history fields: the parameters as
\* they were when each run read its latest row; unparsed is whether the latest
\* record of the first run had a field that cannot be parsed.
NoRuns == [pending |-> << >>, store1 |-> << >>, store2 |-> << >>, unparsed |-> FALSE]

\* The row loop before it reads a row.
NoLoop == [pc |-> "row", i |-> 1, row |-> Row(None, None, 0, 0, << >>), t_ms |-> 0,
           cursors |-> [n \in PgnNames |-> InitialCursor], lines |-> << >>]

SchedInit == conv = ConvInit /\ conv2 = ConvInit /\ runs = NoRuns /\ loop = NoLoop

Init == SchedInit /\ StoreInit /\ ConvertInit

ReadRow ==
    /\ \E ts \in NextStamps(conv), f \in RowFrames :
          conv' = ProcessRow(conv, Row(ts, f.can_id, f.ide, f.dlc, f.data))
    /\ UNCHANGED conv2 /\ UNCHANGED <<storeVars, cv, reg, otherVars>>

MalformedRow ==
    /\ ~conv.skipped
    /\ conv' = SkipRow(conv)
    /\ UNCHANGED conv2 /\ UNCHANGED <<storeVars, cv, reg, otherVars>>

SchedNext == ReadRow \/ MalformedRow

SpecSched == Init /\ [][SchedNext]_vars

(***************************************************************************)
(* SpecChunk: two runs of convert_and_inject over two inputs that start at *)
(* the same timestamp and whose timestamps never decrease.                 *)
(***************************************************************************)
LaterStamps(c) == {ts \in NextStamps(c) : ts >= c.current_timestamp}

ChunkStart ==
    /\ conv.first_timestamp = None
    /\ \E ts \in FirstStamps, f \in RowFrames, g \in RowFrames :
          /\ conv'  = ProcessRow(conv,  Row(ts, f.can_id, f.ide, f.dlc, f.data))
          /\ conv2' = ProcessRow(conv2, Row(ts, g.can_id, g.ide, g.dlc, g.data))
    /\ UNCHANGED <<storeVars, cv, reg, otherVars>>

ChunkReadRow ==
    /\ conv.first_timestamp # None
    /\ \E ts \in LaterStamps(conv), f \in RowFrames :
          conv' = ProcessRow(conv, Row(ts, f.can_id, f.ide, f.dlc, f.data))
    /\ UNCHANGED conv2 /\ UNCHANGED <<storeVars, cv, reg, otherVars>>

ChunkReadRow2 ==
    /\ conv2.first_timestamp # None
    /\ \E ts \in LaterStamps(conv2), f \in RowFrames :
          conv2' = ProcessRow(conv2, Row(ts, f.can_id, f.ide, f.dlc, f.data))
    /\ UNCHANGED conv /\ UNCHANGED <<storeVars, cv, reg, otherVars>>

ChunkNext == ChunkStart \/ ChunkReadRow \/ ChunkReadRow2

SpecChunk == Init /\ [][ChunkNext]_vars

(***************************************************************************)
(* SpecTwoRuns: two runs of convert_and_inject over the same rows, the     *)
(* second run one row behind the first, while set_parameter calls of a     *)
(* control thread change the store between the rows.                       *)
(***************************************************************************)
\* The rows of the two runs: elapsed times at, between and after boundaries.
TwoRunsElapsed == {0, 50, 700, 1000}

TwoRunsStamps(c) ==
    IF c.first_timestamp = None THEN {300}
    ELSE {c.first_timestamp + e : e \in TwoRunsElapsed}

\* The set_parameter calls made between the rows.
TwoRunsNames == {"engine_rpm"}
TwoRunsValues == {2000000}

\* The first run reads a row.
TwoRunsReadFirst ==
    /\ runs.pending = << >>
    /\ \E ts \in TwoRunsStamps(conv), f \in RowFrames :
          /\ conv' = ProcessRow(conv, Row(ts, f.can_id, f.ide, f.dlc, f.data))
          /\ runs' = [runs EXCEPT !.pending = <<Row(ts, f.can_id, f.ide, f.dlc, f.data)>>,
                                  !.store1 = parameters, !.unparsed = FALSE]
    /\ UNCHANGED <<conv2, storeVars, cv, reg, now, query, loop>>

\* The second run reads the row the first run has read.
TwoRunsReadSecond ==
    /\ runs.pending # << >>
    /\ conv2' = ProcessRow(conv2, Head(runs.pending))
    /\ runs' = [runs EXCEPT !.pending = Tail(@), !.store2 = parameters]
    /\ UNCHANGED <<conv, storeVars, cv, reg, now, query, loop>>

TwoRunsSetParameterCall == SP_Call("ctl1", TwoRunsNames, TwoRunsValues)

TwoRunsNext ==
    TwoRunsReadFirst \/ TwoRunsReadSecond \/ TwoRunsSetParameterCall \/ SP_Step("ctl1")

SpecTwoRuns == Init /\ [][TwoRunsNext]_vars

(***************************************************************************)
(* SpecRecent: set_parameter calls of a control thread, the clock, and     *)
(* was_recently_changed calls of another thread at any point in between.   *)
(***************************************************************************)
\* How far the clock runs, in seconds.
MaxTicks == 3

\* was_recently_changed with the parameter's last_update_time for the time of
\* the change.
was_recently_updated(param_name, within_seconds) ==
    IF param_name \in ParameterNames /\ parameters[param_name].last_update_time # 0
    THEN now - parameters[param_name].last_update_time <= within_seconds
    ELSE FALSE

\* if param_name in self._recent_changes:
\*     return time.time() - self._recent_changes[param_name] <= within_seconds
\* return False
was_recently_changed(param_name, within_seconds) ==
    IF param_name \in DOMAIN recent_changes /\ recent_changes[param_name] # None
    THEN now - recent_changes[param_name] <= within_seconds
    ELSE FALSE

RecentNames == {"engine_rpm", "no_such_parameter"}
RecentValues == {0, 2000000}
\* has_recent_changes_for_frame's within_seconds: float = 2.0
FrameWindow == 2
RecentWindows == {0, FrameWindow}

\* time.time() moves on.
Tick ==
    /\ now < StartTime + MaxTicks
    /\ now' = now + 1
    /\ UNCHANGED <<schedVars, storeVars, cv, reg, query, runs, loop>>

RecentSetParameterCall == SP_Call("ctl1", RecentNames, RecentValues)

\* A call of was_recently_changed; seen_update and seen_change are history fields:
\* the parameter's last_update_time and its entry in _recent_changes at the call.
WasRecentlyChangedCall ==
    /\ \E name \in RecentNames, within_seconds \in RecentWindows :
          query' = [op             |-> "was_recently_changed",
                    param_name     |-> name,
                    within_seconds |-> within_seconds,
                    result         |-> was_recently_changed(name, within_seconds),
                    at             |-> now,
                    seen_update    |-> IF name \in ParameterNames
                                       THEN parameters[name].last_update_time ELSE None,
                    seen_change    |-> IF name \in ParameterNames
                                       THEN recent_changes[name] ELSE None]
    /\ UNCHANGED <<schedVars, storeVars, cv, reg, now, runs, loop>>

RecentNext ==
    Tick \/ RecentSetParameterCall \/ SP_Step("ctl1") \/ WasRecentlyChangedCall

SpecRecent == Init /\ [][RecentNext]_vars

(***************************************************************************)
(* SpecMalformed: two runs of convert_and_inject, the first over an input  *)
(* that has, between the rows of the second, rows with fields that cannot  *)
(* be parsed.                                                              *)
(***************************************************************************)
\* The fields of a row that convert_and_inject copies as text.
TextFields == {"can_id", "dlc", "data"}

\* A row with text in field that is no hexadecimal or decimal number.
GarbledRow(ts, field) ==
    [Row(ts, \h18FEF100, 1, 8, <<17, 34, 51, 68, 85, 102, 119, 136>>) EXCEPT ![field] = "ZZ"]

\* A row whose timestamp or IDE field is no number, or that is too short: float(),
\* int() or the index raises and the except clause skips the row.
MalformedRaises ==
    /\ runs.pending = << >>
    /\ ~runs.unparsed
    /\ conv' = SkipRow(conv)
    /\ runs' = [runs EXCEPT !.unparsed = TRUE]
    /\ UNCHANGED <<conv2, storeVars, cv, reg, now, query, loop>>

\* A row whose identifier, length or payload is no number: the field is copied
\* as text and nothing raises.
MalformedCopied ==
    /\ runs.pending = << >>
    /\ \E ts \in TwoRunsStamps(conv), field \in TextFields :
          conv' = ProcessRow(conv, GarbledRow(ts, field))
    /\ runs' = [runs EXCEPT !.unparsed = TRUE]
    /\ UNCHANGED <<conv2, storeVars, cv, reg, now, query, loop>>

MalformedNext ==
    TwoRunsReadFirst \/ TwoRunsReadSecond \/ MalformedRaises \/ MalformedCopied

SpecMalformed == Init /\ [][MalformedNext]_vars

(***************************************************************************)
(* SpecJump: convert_and_inject over rows whose timestamps jump forward    *)
(* by more than twenty seconds, one iteration of the while loop at a time. *)
(***************************************************************************)
\* A ceiling of "tens of seconds" for the step between two rows, in ms.
JumpCeiling == 20 * 1000

\* Elapsed times before and after a jump of 25 s.
JumpElapsed == {0, 1000, 25000, 25050}

JumpStamps(c) ==
    IF c.first_timestamp = None THEN FirstStamps
    ELSE {c.first_timestamp + e : e \in JumpElapsed}

\* 1. and 2.: the row is parsed and its elapsed time computed.
JumpParseRow ==
    /\ loop.pc = "row"
    /\ \E ts \in JumpStamps(conv), f \in RowFrames :
          loop' = [pc      |-> "while",
                   i       |-> 1,
                   row     |-> Row(ts, f.can_id, f.ide, f.dlc, f.data),
                   t_ms    |-> ts - EstablishTimeBase(conv.first_timestamp, ts),
                   cursors |-> conv.last_injection_time_ms,
                   lines   |-> << >>]
    /\ UNCHANGED <<schedVars, storeVars, cv, reg, now, query, runs>>

\* One iteration of the while loop of the PGN at hand.
JumpInject ==
    /\ loop.pc = "while"
    /\ loop.i <= Len(PGNS_TO_INJECT)
    /\ loop.t_ms >= loop.cursors[PGNS_TO_INJECT[loop.i].name]
                       + PGNS_TO_INJECT[loop.i].repetition_ms
    /\ loop' = [loop EXCEPT
                  !.cursors[PGNS_TO_INJECT[loop.i].name] =
                      @ + PGNS_TO_INJECT[loop.i].repetition_ms,
                  !.lines = Append(@, InjectedLine(PGNS_TO_INJECT[loop.i],
                                       loop.cursors[PGNS_TO_INJECT[loop.i].name]
                                          + PGNS_TO_INJECT[loop.i].repetition_ms))]
    /\ UNCHANGED <<schedVars, storeVars, cv, reg, now, query, runs>>

\* The while condition is false: the for loop goes on to the next PGN.
JumpNextPgn ==
    /\ loop.pc = "while"
    /\ loop.i <= Len(PGNS_TO_INJECT)
    /\ loop.t_ms < loop.cursors[PGNS_TO_INJECT[loop.i].name]
                      + PGNS_TO_INJECT[loop.i].repetition_ms
    /\ loop' = [loop EXCEPT !.i = @ + 1]
    /\ UNCHANGED <<schedVars, storeVars, cv, reg, now, query, runs>>

\* 4.: the row's own line is written.
JumpWriteRow ==
    /\ loop.pc = "while"
    /\ loop.i > Len(PGNS_TO_INJECT)
    /\ conv' = RowResult(conv, loop.row, [cursors |-> loop.cursors, lines |-> loop.lines])
    /\ loop' = NoLoop
    /\ UNCHANGED <<conv2, storeVars, cv, reg, now, query, runs>>

JumpNext == JumpParseRow \/ JumpInject \/ JumpNextPgn \/ JumpWriteRow

SpecJump == Init /\ [][JumpNext]_vars

(***************************************************************************)
(* Spec: the store and the frame modifier, one call at a time: a control   *)
(* thread calls set_parameter, the frame thread calls modify_frame, and a  *)
(* call runs to its return before the next one starts.                     *)
(***************************************************************************)
SetParameterCall ==
    /\ mf.pc = "idle"
    /\ SP_Call("ctl1", SetNames, HumanValues)

ModifyFrameCall ==
    /\ sp["ctl1"].pc = "idle"
    /\ MF_Call(Messages)

Next == SetParameterCall \/ SP_Step("ctl1") \/ ModifyFrameCall \/ MF_Step

Spec == Init /\ [][Next]_vars

(***************************************************************************)
(* SpecListen: listeners are registered and unregistered between the calls *)
(* of set_parameter of one control thread.                                 *)
(***************************************************************************)
Callbacks == {"cb_ui", "cb_raises", "cb_log"}
ListenNames == {"engine_rpm", "fuel_level", "no_such_parameter"}
ListenValues == {0, 100000}

ListenSetParameterCall == SP_Call("ctl1", ListenNames, ListenValues)

ListenRegister ==
    /\ sp["ctl1"].pc = "idle"
    /\ RegisterCall(Callbacks)

ListenUnregister ==
    /\ sp["ctl1"].pc = "idle"
    /\ UnregisterCall(Callbacks)

ListenNext ==
    ListenSetParameterCall \/ SP_Step("ctl1") \/ ListenRegister \/ ListenUnregister

SpecListen == Init /\ [][ListenNext]_vars

(***************************************************************************)
(* SpecConc: one control thread calling set_parameter while the frame      *)
(* thread calls modify_frame, interleaved at every access to the store.    *)
(***************************************************************************)
ConcNames == {"engine_rpm", "engine_torque"}
ConcValues == {0, 2000000}
ConcMessages == {m \in Messages : m.arbitration_id = \h0CF00400 /\ Len(m.data) = 8}

ConcSetParameterCall == SP_Call("ctl1", ConcNames, ConcValues)

ConcModifyFrameCall == MF_Call(ConcMessages)

ConcNext == ConcSetParameterCall \/ SP_Step("ctl1") \/ ConcModifyFrameCall \/ MF_Step

SpecConc == Init /\ [][ConcNext]_vars

(***************************************************************************)
(* SpecModify: as Spec, and the caller may hand the message modify_frame   *)
(* has returned to modify_frame again.                                     *)
(***************************************************************************)
ModifyMessages == {m \in Messages : Len(m.data) = 8 /\ m.arbitration_id # \h18FEFC47}

ModifySetParameterCall ==
    /\ mf.pc = "idle"
    /\ SP_Call("ctl1", ConcNames, ConcValues)

ModifyFrameFirst ==
    /\ sp["ctl1"].pc = "idle"
    /\ MF_Call(ModifyMessages)

\* modify_frame(modify_frame(msg)): the second call, on the result of the first.
ModifyFrameAgain ==
    /\ mf.pc = "returned"
    /\ ~mf.again
    /\ mf' = [MfIdle EXCEPT !.pc = "L44", !.msg = mf.result,
                            !.again = TRUE, !.prior = mf.result]
    /\ UNCHANGED <<parameters, simulation_enabled, update_callbacks, sp, conv, conv2, cv, reg,
                 recent_changes, otherVars>>

ModifyNext ==
    ModifySetParameterCall \/ SP_Step("ctl1") \/ ModifyFrameFirst \/ ModifyFrameAgain \/ MF_Step

SpecModify == Init /\ [][ModifyNext]_vars

(***************************************************************************)
(* SpecWriters: two control threads calling set_parameter, interleaved at  *)
(* every access to the store.                                              *)
(***************************************************************************)
WritersCall1 == SP_Call("ctl1", ConcNames, ConcValues)

WritersCall2 == SP_Call("ctl2", ConcNames, ConcValues)

WritersNext == WritersCall1 \/ SP_Step("ctl1") \/ WritersCall2 \/ SP_Step("ctl2")

SpecWriters == Init /\ [][WritersNext]_vars

(***************************************************************************)
(* SpecConvert: one call of ParameterConversions.to_raw or from_raw, alone *)
(* or composed, per behaviour: the functions are pure, so a call does not  *)
(* depend on the calls before it.                                          *)
(***************************************************************************)
\* The record of a to_raw(param_name, value) call that has returned raw.
ToRawResult(param_name, value, raw) ==
    [NoConversion EXCEPT !.op = "to_raw", !.param_name = param_name,
                         !.value = value, !.raw = raw]

\* to_raw(param_name, value) for the value value.
ToRawOf(param_name, value) == ToRawResult(param_name, value, to_raw(param_name, value))

\* to_raw(param_name, value)
ToRawCall ==
    /\ cv.op = "none"
    /\ \E name \in ConvertNames, d \in DecimalInputs :
          cv' = ToRawOf(name, FloatOfRatio(d[1], d[2]))
    /\ UNCHANGED <<schedVars, storeVars, reg, otherVars>>

\* from_raw(param_name, raw_value)
FromRawCall ==
    /\ cv.op = "none"
    /\ \E name \in ConvertNames :
          \E raw_value \in RawInputs(name) :
             cv' = [NoConversion EXCEPT !.op = "from_raw", !.param_name = name,
                                        !.raw_in = raw_value,
                                        !.human = from_raw(name, raw_value)]
    /\ UNCHANGED <<schedVars, storeVars, reg, otherVars>>

\* The record of to_raw(param_name, human), human being from_raw(param_name, raw_value).
RawRoundTripResult(param_name, raw_value, human) ==
    [NoConversion EXCEPT !.op = "raw_round_trip", !.param_name = param_name,
                         !.raw_in = raw_value, !.human = human,
                         !.raw = to_raw(param_name, human)]

\* to_raw(param_name, from_raw(param_name, raw_value))
RawRoundTrip ==
    /\ cv.op = "none"
    /\ \E name \in ConvertNames :
          \E raw_value \in RawInputs(name) :
             cv' = RawRoundTripResult(name, raw_value, from_raw(name, raw_value))
    /\ UNCHANGED <<schedVars, storeVars, reg, otherVars>>

\* The record of from_raw(param_name, raw), raw being to_raw(param_name, value).
HumanRoundTripResult(param_name, value, raw) ==
    [NoConversion EXCEPT !.op = "human_round_trip", !.param_name = param_name,
                         !.value = value, !.raw = raw,
                         !.human = from_raw(param_name, raw)]

\* from_raw(param_name, to_raw(param_name, value)) for the value value.
HumanRoundTripOf(param_name, value) ==
    HumanRoundTripResult(param_name, value, to_raw(param_name, value))

\* from_raw(param_name, to_raw(param_name, value))
HumanRoundTrip ==
    /\ cv.op = "none"
    /\ \E name \in ConvertNames, d \in DecimalInputs :
          cv' = HumanRoundTripOf(name, FloatOfRatio(d[1], d[2]))
    /\ UNCHANGED <<schedVars, storeVars, reg, otherVars>>

ConvertNext == ToRawCall \/ FromRawCall \/ RawRoundTrip \/ HumanRoundTrip

SpecConvert == Init /\ [][ConvertNext]_vars

(***************************************************************************)
(* The claims about the injection loop.                                    *)
(***************************************************************************)
\* The synthetic lines of seq, and those among a set of lines, of one PGN.
InjectedOf(pgn_name, lines) ==
    {l \in lines : l.synthetic /\ l.can_id = PgnInfo(pgn_name).can_id_hex}

\* How many boundaries c + I, c + 2I, ... are <= t_ms.
DueCount(c, interval, t_ms) ==
    IF t_ms >= c + interval THEN (t_ms - c) \div interval ELSE 0

RECURSIVE SumDue(_, _, _)
SumDue(i, cursors, t_ms) ==
    IF i > Len(PGNS_TO_INJECT) THEN 0
    ELSE DueCount(cursors[PGNS_TO_INJECT[i].name], PGNS_TO_INJECT[i].repetition_ms, t_ms)
         + SumDue(i + 1, cursors, t_ms)

\* A step of conv that processed a valid row.
RowProcessed == conv' # conv /\ ~conv'.skipped

\* C2: catch-up.  When a row with elapsed time t_ms is processed, then for each
\* PGN with cursor c and interval I the lines written for it are stamped exactly
\* c + I, c + 2I, ..., c + kI, the boundaries that are <= t_ms, in this order, its
\* cursor is left at c + kI (at c when k = 0), and nothing else is written but the
\* row's own line.
C2_CatchUp ==
    [][RowProcessed =>
        /\ \A n \in PgnNames :
              LET c == conv.last_injection_time_ms[n]
                  I == PgnInfo(n).repetition_ms
                  k == DueCount(c, I, conv'.t_ms)
              IN  /\ StampsOf(PgnInfo(n), conv'.written) = [i \in 1..k |-> c + i * I]
                  /\ conv'.last_injection_time_ms[n] = c + k * I
                  /\ conv'.n_injected[n] = conv.n_injected[n] + k
                  /\ (k > 0 => c + k * I <= conv'.t_ms /\ conv'.t_ms < c + (k + 1) * I)
        /\ Len(conv'.written) = 1 + SumDue(1, conv.last_injection_time_ms, conv'.t_ms)
      ]_vars

\* C2's case: one row made the 500 ms PGN catch up three boundaries at once.
C2_Witness ==
    /\ conv.t_ms = 1700
    /\ StampsOf(PgnInfo("Turbo_Pressure"), conv.written) = <<499, 999, 1499>>

\* C3 as claimed: over rows whose elapsed time runs from 0 to T with no reset,
\* floor(T / interval) lines are injected per PGN, each stamped at a multiple of
\* the interval; for Total_Hours (0x18FEE500, 1000 ms) and T = 2500 the lines are
\* stamped 1000 and 2000.
C3_Claim ==
    (conv.first_timestamp # None /\ conv.monotone) =>
        /\ \A n \in PgnNames :
              /\ conv.n_injected[n] = conv.t_ms \div PgnInfo(n).repetition_ms
              /\ \A l \in InjectedOf(n, conv.injected) :
                    l.timestamp_ms % PgnInfo(n).repetition_ms = 0
        /\ (conv.t_ms = 2500 =>
              {l.timestamp_ms : l \in InjectedOf("Total_Hours", conv.injected)} = {1000, 2000})

\* C4: chunking independence.  Two runs over inputs with non-decreasing
\* timestamps that start at the same timestamp and have reached the same last
\* timestamp have injected the same set of lines (identifier, stamp, payload).
C4_ChunkingIndependence ==
    (/\ conv.first_timestamp # None
     /\ conv.first_timestamp = conv2.first_timestamp
     /\ conv.monotone /\ conv2.monotone
     /\ conv.current_timestamp = conv2.current_timestamp)
    => conv.injected = conv2.injected

\* C4's case: both runs are at 2500 ms; the latest row of one caught up more
\* boundaries than the latest row of the other.
C4_Witness ==
    /\ conv.t_ms = 2500 /\ conv2.t_ms = 2500
    /\ Len(conv.written) > Len(conv2.written) + 10
    /\ Len(conv2.written) > 1
    /\ conv.injected = conv2.injected

\* C5 as claimed: every cursor starts at -1 x its own repetition interval, and
\* the first line of each PGN is stamped 0, written when the first row is
\* processed.
C5_Claim ==
    \A n \in PgnNames :
        /\ (conv.first_timestamp = None =>
               conv.last_injection_time_ms[n] = -1 * PgnInfo(n).repetition_ms)
        /\ (conv.first_timestamp # None =>
               \E l \in InjectedOf(n, conv.injected) : l.timestamp_ms = 0)

\* C6: nothing is injected before the first valid row; the first valid row sets
\* first_timestamp to its own timestamp, so that its elapsed time is 0; and no
\* later row changes first_timestamp.
C6_Epoch ==
    [][/\ (conv.first_timestamp = None => conv.injected = {} /\ conv.written = << >>)
       /\ (conv.first_timestamp = None /\ RowProcessed =>
             /\ conv'.first_timestamp = conv'.current_timestamp
             /\ conv'.t_ms = 0
             /\ conv'.written[Len(conv'.written)].timestamp_ms = 0)
       /\ (conv.first_timestamp # None =>
             /\ conv'.first_timestamp = conv.first_timestamp
             /\ (RowProcessed =>
                   conv'.t_ms = conv'.current_timestamp - conv.first_timestamp))
      ]_vars

\* C6's case: rows after the first were processed, lines were injected, and the
\* epoch is still the first row's timestamp.
C6_Witness ==
    /\ conv.first_timestamp \in FirstStamps
    /\ conv.current_timestamp = conv.first_timestamp + 999
    /\ conv.max_t_ms = 2500
    /\ conv.injected # {}

(***************************************************************************)
(* The claims about the parameter store and the frame modifier.            *)
(***************************************************************************)
\* The entries of FRAME_MAP[frame_id] whose parameter is enabled in the store.
EnabledEntries(frame_id) ==
    IF frame_id \in DOMAIN FRAME_MAP
    THEN {e \in SeqToSet(FRAME_MAP[frame_id]) : parameters[e.param].enabled}
    ELSE {}

\* modify_frame has returned a message it built (no fast path was taken).
Overlaid == mf.pc = "returned" /\ ~mf.same_object

\* The byte positions (0-based) of the entries es that lie within data.
PositionsWithin(es, data) ==
    UNION {{e.bytes[i] : i \in DOMAIN e.bytes} : e \in es} \cap (0 .. Len(data) - 1)

\* All byte positions of entry e lie within data.
Fits(e, data) == \A i \in DOMAIN e.bytes : e.bytes[i] < Len(data)

\* C1 as claimed: a reader of a parameter's pair never observes enabled = true
\* together with a raw value other than the one written by the set_parameter call
\* that wrote that enabled, or by a later one.
C1_Claim == mf.observed.enabled => mf.observed.raw \in mf.observed.paired

\* C7 as claimed: a message modify_frame built has the identifier, extended
\* flag, length and timestamp of the input; for each enabled parameter of the
\* frame, the byte at list position i of its byte range (0-based) is
\* (raw_value >> 8*i) & 0xFF; and every other byte is the input's.
C7_Claim ==
    Overlaid =>
        LET es == EnabledEntries(mf.msg.arbitration_id)
        IN  /\ mf.result.arbitration_id = mf.msg.arbitration_id
            /\ mf.result.is_extended_id = mf.msg.is_extended_id
            /\ mf.result.timestamp = mf.msg.timestamp
            /\ Len(mf.result.data) = Len(mf.msg.data)
            /\ \A e \in es : \A i \in DOMAIN e.bytes :
                 e.bytes[i] < Len(mf.msg.data) =>
                   mf.result.data[e.bytes[i] + 1]
                     = (parameters[e.param].raw_value \div (256 ^ (i - 1))) % 256
            /\ \A pos \in 0 .. Len(mf.msg.data) - 1 :
                 pos \notin PositionsWithin(es, mf.msg.data) =>
                   mf.result.data[pos + 1] = mf.msg.data[pos + 1]

\* C7 as amended: the same, for the enabled parameters all of whose byte
\* positions lie within the message's data; an enabled parameter with a byte
\* position at or beyond the data length changes no byte.
C7_Overlay ==
    Overlaid =>
        LET es == {e \in EnabledEntries(mf.msg.arbitration_id) : Fits(e, mf.msg.data)}
        IN  /\ es # {} \/ mf.result.data = mf.msg.data
            /\ mf.result.arbitration_id = mf.msg.arbitration_id
            /\ mf.result.is_extended_id = mf.msg.is_extended_id
            /\ mf.result.timestamp = mf.msg.timestamp
            /\ Len(mf.result.data) = Len(mf.msg.data)
            /\ \A e \in es : \A i \in DOMAIN e.bytes :
                 mf.result.data[e.bytes[i] + 1]
                   = (parameters[e.param].raw_value \div (256 ^ (i - 1))) % 256
            /\ \A pos \in 0 .. Len(mf.msg.data) - 1 :
                 pos \notin PositionsWithin(es, mf.msg.data) =>
                   mf.result.data[pos + 1] = mf.msg.data[pos + 1]

\* C7's case: engine_rpm = 2000.0 (raw 0x3E80) alone is overlaid on an eight-byte
\* 0x0CF00400 frame: byte 3 is 0x80, byte 4 is 0x3E, the others are the input's.
C7_Witness ==
    /\ Overlaid
    /\ mf.msg.arbitration_id = \h0CF00400
    /\ parameters["engine_rpm"].enabled
    /\ parameters["engine_rpm"].raw_value = \h3E80
    /\ ~parameters["engine_torque"].enabled
    /\ mf.msg.data = <<17, 34, 51, 68, 85, 102, 119, 136>>
    /\ mf.result.data = <<17, 34, 51, \h80, \h3E, 102, 119, 136>>

\* C8: modify_frame returns the original message, equal to the input in every
\* field and byte, when the aggregate flag is false, when FRAME_MAP has no entry
\* for the identifier, and when it has one but none of its parameters is enabled.
C8_FastPaths ==
    (/\ mf.pc = "returned"
     /\ \/ ~simulation_enabled
        \/ mf.msg.arbitration_id \notin DOMAIN FRAME_MAP
        \/ EnabledEntries(mf.msg.arbitration_id) = {})
    => mf.same_object /\ mf.result = mf.msg

\* C8's case: the flag is set, the identifier is mapped, none of its parameters
\* is enabled, and the original message came back.
C8_Witness ==
    /\ mf.pc = "returned"
    /\ simulation_enabled
    /\ mf.msg.arbitration_id = \h18FEFC47
    /\ ~parameters["fuel_level"].enabled
    /\ mf.result = mf.msg

\* C9: after every completed set_parameter call of a sequential history, the
\* aggregate flag is true if and only if some parameter is enabled.
C9_AggregateFlag ==
    (\A w \in Writers : sp[w].pc = "idle") =>
        (is_simulation_enabled <=> \E n \in ParameterNames : parameters[n].enabled)

\* C9's case: parameters were enabled and disabled again, and the flag is clear.
C9_Witness ==
    /\ \A w \in Writers : sp[w].pc = "idle"
    /\ ~simulation_enabled
    /\ parameters["engine_rpm"].raw_value > 0
    /\ parameters["fuel_level"].raw_value > 0

\* C10: has_frame_modifications(frame_id) is true if and only if FRAME_MAP has an
\* entry for frame_id and at least one parameter of that entry is enabled.
C10_FrameHasModifications ==
    \A frame_id \in FrameIds :
        has_frame_modifications(frame_id)
          <=> /\ frame_id \in DOMAIN FRAME_MAP
              /\ \E k \in DOMAIN FRAME_MAP[frame_id] :
                    parameters[FRAME_MAP[frame_id][k].param].enabled

\* C10's case: only the second parameter of a frame is enabled.
C10_Witness ==
    /\ parameters["engine_torque"].enabled
    /\ ~parameters["engine_rpm"].enabled
    /\ ~parameters["fuel_level"].enabled
    /\ has_frame_modifications(\h0CF00400)
    /\ ~has_frame_modifications(\h18FEFC47)

(***************************************************************************)
(* The claims about unknown names and listeners.                           *)
(***************************************************************************)
\* The locals of the control thread's set_parameter call.
call == sp["ctl1"]

\* A step that is a call of set_parameter with a name that is not registered.
UnknownNameCall ==
    /\ call.pc = "idle"
    /\ sp'["ctl1"] # call
    /\ sp'["ctl1"].param_name \notin ParameterNames

\* C11: set_parameter with a name that is not registered fails with
\* an UnknownParameter error reported to the caller, leaves every parameter, the
\* aggregate flag and the listeners unchanged and notifies no listener.
C11_Claim ==
    [][UnknownNameCall =>
        /\ sp'["ctl1"].error = "UnknownParameter"
        /\ UNCHANGED <<parameters, simulation_enabled, update_callbacks>>
        /\ sp'["ctl1"].notified = << >>]_vars

\* The number of times the running call invoked callback with the arguments
\* (name, enabled, raw), and the number of times it invoked it at all.
Invocations(callback, raw) ==
    Cardinality({i \in DOMAIN call.notified :
                   call.notified[i] = [callback |-> callback, param_name |-> call.param_name,
                                       enabled |-> call.enabled, raw |-> raw,
                                       raised |-> callback \in FailingCallbacks]})

InvocationsOf(callback) ==
    Cardinality({i \in DOMAIN call.notified : call.notified[i].callback = callback})

\* raw = to_raw(name, v) if enabled and 0 otherwise.
NotifiedRaw ==
    IF call.enabled THEN ToRawOfHuman(call.param_name, call.human_value) ELSE 0

\* The call is past its notification loop.
Notified == call.pc = "L261"

\* The call found enabled or raw different from what the parameter held.
Changed == call.enabled # call.old_enabled \/ NotifiedRaw # call.old_raw

\* C13 as claimed: every set_parameter call on a registered name invokes each
\* registered listener exactly once with (name, enabled, raw).
C13_Claim ==
    Notified =>
        \A callback \in SeqToSet(update_callbacks) :
            Invocations(callback, NotifiedRaw) = 1 /\ InvocationsOf(callback) = 1

\* C13 as amended: a call that finds enabled different from the parameter's
\* enabled state, or raw different from its stored raw value, invokes each
\* registered listener exactly once with (name, enabled, raw); any other call
\* invokes no listener.
C13_NotifyOnChange ==
    Notified =>
        IF Changed
        THEN /\ \A callback \in SeqToSet(update_callbacks) :
                   Invocations(callback, NotifiedRaw) = 1 /\ InvocationsOf(callback) = 1
             /\ Len(call.notified) = Len(update_callbacks)
        ELSE call.notified = << >>

\* C13's case: a call that keeps fuel_level enabled and changes its raw value
\* has invoked three listeners.
C13_Witness ==
    /\ Notified
    /\ call.param_name = "fuel_level"
    /\ call.enabled /\ call.old_enabled
    /\ call.old_raw = 0 /\ call.new_raw = 250
    /\ Len(call.notified) = 3

\* C14: when a listener fails, the notification loop goes on to the listeners
\* after it, the call raises nothing, the parameter keeps the state the call
\* wrote, and the call ends with the aggregate flag equal to "some parameter is
\* enabled".
C14_Isolation ==
    [][/\ call.pc = "L211" =>
            /\ sp'["ctl1"].pc \in {"L211", "L261"}
            /\ sp'["ctl1"].error = "None"
            /\ UNCHANGED parameters
            /\ sp'["ctl1"].pc = "L261" =>
                 [i \in DOMAIN sp'["ctl1"].notified |-> sp'["ctl1"].notified[i].callback]
                   = update_callbacks
       /\ call.pc = "L262" =>
            /\ sp'["ctl1"].pc = "idle"
            /\ sp'["ctl1"].error = "None"
            /\ parameters'[call.param_name].enabled = call.enabled
            /\ call.enabled => parameters'[call.param_name].raw_value = call.new_raw
            /\ simulation_enabled' <=> \E n \in ParameterNames : parameters'[n].enabled]_vars

\* C14's case: a call has returned after its first listener failed and two more
\* were invoked, and the flag is set.
C14_Witness ==
    /\ call.pc = "idle"
    /\ Len(call.notified) = 3
    /\ call.notified[1].raised
    /\ ~call.notified[3].raised
    /\ call.error = "None"
    /\ simulation_enabled

\* C15: the listener list holds each callback at most once; registering a
\* registered callback changes nothing, registering another one adds it;
\* unregistering removes the callback entirely and changes nothing when it is
\* absent; and a call invokes a listener at most once.
C15_ListenersOnce ==
    /\ Cardinality(SeqToSet(update_callbacks)) = Len(update_callbacks)
    /\ reg.op = "register" =>
         /\ reg.callback \in SeqToSet(reg.before) => update_callbacks = reg.before
         /\ SeqToSet(update_callbacks) = SeqToSet(reg.before) \cup {reg.callback}
    /\ reg.op = "unregister" =>
         /\ reg.callback \notin SeqToSet(update_callbacks)
         /\ reg.callback \notin SeqToSet(reg.before) => update_callbacks = reg.before
         /\ SeqToSet(update_callbacks) = SeqToSet(reg.before) \ {reg.callback}
    /\ \A callback \in Callbacks : InvocationsOf(callback) <= 1

\* C15's case: a registered callback was registered again.
C15_Witness ==
    /\ reg.op = "register"
    /\ reg.callback \in SeqToSet(reg.before)
    /\ Len(update_callbacks) = 3

(***************************************************************************)
(* The claims about the conversions.                                       *)
(***************************************************************************)
\* C12: to_raw and from_raw called with a name that is not a known parameter
\* signal UnknownParameter; they do not return 0 or 0.0 as a result.
C12_Claim ==
    (cv.op \in {"to_raw", "from_raw"} /\ cv.param_name \notin ConversionNames)
        => cv.error = "UnknownParameter"

\* The transform of value clamped into [0, 2^bits - 1], bits being the width
\* param_name has in its frame.
ClampedTransform(param_name, value) ==
    LET t   == ConversionToRaw(param_name, value)
        top == AllOnes(EncodingBits(param_name))
    IN  IF t.neg THEN << >>
        ELSE IF BigCmp(t.mag, top) > 0 THEN top ELSE t.mag

\* C16: for every known parameter and every human value, to_raw returns the
\* parameter's transform of the value clamped into [0, 2^width - 1], the width
\* being the 8, 16 or 32 bits of the parameter's encoding: a transform above
\* the width gives 2^width - 1, not the transform modulo 2^width, and a
\* negative transform gives 0.
C16_Clamp ==
    (cv.op = "to_raw" /\ cv.param_name \in ConversionNames) =>
        /\ cv.raw = ClampedTransform(cv.param_name, cv.value)
        /\ BigCmp(cv.raw, AllOnes(EncodingBits(cv.param_name))) <= 0

\* to_raw('fuel_level', 102.4): the transform is 256 and the result 255.
C16_Witness ==
    /\ cv.op = "to_raw"
    /\ cv.param_name = "fuel_level"
    /\ cv.value = FloatOfRatio(1024, 10)
    /\ ConversionToRaw("fuel_level", cv.value).mag = BigOfInt(256)
    /\ cv.raw = BigOfInt(255)

\* C17: for every known parameter and every raw encoding r of its width,
\* to_raw(name, from_raw(name, r)) is r.
C17_Claim ==
    (cv.op = "raw_round_trip" /\ cv.param_name \in ConversionNames)
        => cv.raw = cv.raw_in

\* The order of the float x and the natural n: -1, 0 or 1 as x < n, x = n, x > n.
CmpFloatNat(x, n) ==
    IF x.neg THEN -1
    ELSE IF x.exp >= 0 THEN BigCmp(ShiftLeft(x.man, x.exp), BigOfInt(n))
    ELSE BigCmp(x.man, ShiftLeft(BigOfInt(n), -x.exp))

\* value lies in CONVERSIONS[param_name]['range'].
InHumanRange(param_name, value) ==
    /\ CmpFloatNat(value, ConversionRange(param_name)[1]) >= 0
    /\ CmpFloatNat(value, ConversionRange(param_name)[2]) <= 0

\* |x - y| <= num / den, computed exactly.
WithinStep(x, y, num, den) ==
    LET e == Min(x.exp, y.exp)
        a == ShiftLeft(x.man, x.exp - e)
        b == ShiftLeft(y.man, y.exp - e)
        d == IF x.neg # y.neg THEN BigAdd(a, b)
             ELSE IF BigCmp(a, b) >= 0 THEN BigSub(a, b) ELSE BigSub(b, a)
        s == BigMul(d, BigOfInt(den))
    IN  IF e >= 0 THEN BigCmp(ShiftLeft(s, e), BigOfInt(num)) <= 0
        ELSE BigCmp(s, ShiftLeft(BigOfInt(num), -e)) <= 0

RECURSIVE SumBytes(_, _)
\* The number whose n little-endian bytes are those the overlay takes of raw_value.
SumBytes(raw_value, n) ==
    IF n = 0 THEN 0
    ELSE ByteOf(raw_value, 0) + 256 * SumBytes(raw_value \div 256, n - 1)

\* The encoding tag of a field of n bytes.
TagOfBytes(n) ==
    CASE n = 1 -> "uint8"
      [] n = 2 -> "uint16_le"
      [] n = 4 -> "uint32_le"
      [] OTHER -> "none"

\* A human value whose transform is above 32 bits for every parameter.
AboveEveryWidth == FloatOfInt(2000000000)

\* The entry of every parameter has 1, 2 or 4 byte positions, the tag of that
\* many bytes, and to_raw clamps the parameter to that many bytes.
WidthsAgree ==
    \A name \in ParameterNames :
        LET entry == FrameMapEntry(name)
            n     == Len(entry.bytes)
        IN  /\ n \in {1, 2, 4}
            /\ entry.type = TagOfBytes(n)
            /\ to_raw(name, AboveEveryWidth) = AllOnes(8 * n)

\* raw_value has no bits above its n lowest bytes, and the bytes the overlay
\* writes for it make up raw_value again.
FitsBytes(raw_value, n) ==
    /\ raw_value >= 0
    /\ raw_value \div (2 ^ (8 * (n - 1))) < 256
    /\ SumBytes(raw_value, n) = raw_value

\* C19: every parameter of FRAME_MAP has the byte count and the encoding tag of
\* the width to_raw clamps it to (1 byte and uint8, 2 and uint16_le, 4 and
\* uint32_le), and after any sequence of set_parameter calls every stored
\* raw_value is in 0 .. 2^(8n) - 1, n being the parameter's byte count, so that
\* the bytes the overlay writes hold the whole value.
C19_WidthAgreement ==
    /\ WidthsAgree
    /\ \A name \in ParameterNames :
          FitsBytes(parameters[name].raw_value, Len(FrameMapEntry(name).bytes))

\* Stored values at the top of their widths: engine_rpm set to 9000.0 is stored
\* as 65535 and fuel_level set to 9000.0 as 255.
C19_Witness ==
    /\ parameters["engine_rpm"].raw_value = 65535
    /\ parameters["fuel_level"].raw_value = 255
    /\ ConversionToRaw("engine_rpm", HumanValue(9000000)).mag = BigOfInt(72000)

(***************************************************************************)
(* The claim about the 'x' suffix of the output lines.                     *)
(***************************************************************************)
\* The lines written for the row read last.
WrittenLines == {conv.written[i] : i \in 1..Len(conv.written)}

\* The rows of the log a line that is not synthetic can come from.
SourceRows(line) ==
    {r \in RowFrames : r.can_id = line.can_id /\ r.dlc = line.dlc /\ r.data = line.data}

\* C20: a synthetic line carries the 'x' suffix exactly when its identifier is
\* above 0x7FF, whatever the extended flag of the row being processed is; the
\* line of a row carries it exactly when the row is an extended frame.
C20_ExtendedSuffix ==
    \A line \in WrittenLines :
        IF line.synthetic
        THEN line.x_suffix <=> (line.can_id > StdIdMax)
        ELSE \A r \in SourceRows(line) : line.x_suffix <=> (r.ide = 1)

\* A standard row, 0x7E0 with the flag 0, written without the suffix after a
\* synthetic line of an identifier above 0x7FF written with it.
C20_Witness ==
    /\ Len(conv.written) >= 2
    /\ \E line \in WrittenLines :
          line.synthetic /\ line.can_id > StdIdMax /\ line.x_suffix
    /\ LET original_line == conv.written[Len(conv.written)]
       IN  /\ ~original_line.synthetic
           /\ original_line.can_id = \h7E0
           /\ SourceRows(original_line) # {}
           /\ ~original_line.x_suffix

(***************************************************************************)
(* The claims about the synthetic payload and the two runs.                *)
(***************************************************************************)
\* The entries of PGNS_TO_INJECT with the identifier can_id.
PgnsOfId(can_id) ==
    {PGNS_TO_INJECT[i] : i \in {j \in DOMAIN PGNS_TO_INJECT : PGNS_TO_INJECT[j].can_id_hex = can_id}}

\* The synthetic lines among those written for the latest row of a run.
SyntheticWritten(c) == SelectSeq(c.written, LAMBDA line : line.synthetic)

\* The two runs have read the same rows.
InStep == runs.pending = << >> /\ conv.current_timestamp # None

\* C21: every synthetic line has the length 8 and the eight bytes of the template
\* of its PGN, and two runs over the same rows, each row read in two states of
\* the parameter store, write the same synthetic lines.
C21_TemplatePayload ==
    /\ \A line \in conv.injected \cup conv2.injected :
          /\ line.dlc = 8
          /\ Len(line.data) = 8
          /\ \E pgn_info \in PgnsOfId(line.can_id) : line.data = pgn_info.payload_template
    /\ InStep =>
          /\ SyntheticWritten(conv) = SyntheticWritten(conv2)
          /\ conv.injected = conv2.injected
          /\ conv.last_injection_time_ms = conv2.last_injection_time_ms

\* The two runs read a row that injects lines, the first with engine_rpm
\* disabled and the second with engine_rpm enabled at raw 16000.
C21_Witness ==
    /\ InStep
    /\ Len(SyntheticWritten(conv)) >= 2
    /\ ~runs.store1["engine_rpm"].enabled
    /\ runs.store2["engine_rpm"].enabled
    /\ runs.store2["engine_rpm"].raw_value = 16000

(***************************************************************************)
(* The claim about the bound of the catch-up loop.                         *)
(***************************************************************************)
\* The most lines a step of at most JumpCeiling between two rows lets the loop
\* write for one PGN.
BurstCap(pgn_name) == JumpCeiling \div PgnInfo(pgn_name).repetition_ms + 1

\* C22: while one row is processed at most BurstCap lines are written per PGN, and
\* a row more than JumpCeiling after the row before it does not get one line for
\* every interval missed across the jump.
C22_Claim ==
    [][RowProcessed =>
        \A n \in PgnNames :
           LET k    == Len(StampsOf(PgnInfo(n), conv'.written))
               due  == DueCount(conv.last_injection_time_ms[n],
                                PgnInfo(n).repetition_ms, conv'.t_ms)
               jump == conv'.current_timestamp - conv.current_timestamp
           IN  /\ k <= BurstCap(n)
               /\ (conv.current_timestamp # None /\ jump > JumpCeiling /\ due > 0)
                     => k < due]_vars

(***************************************************************************)
(* The claim about rows that cannot be parsed.                             *)
(***************************************************************************)
\* The epoch and the cursors of the two runs agree.
SameTrackers ==
    /\ conv.first_timestamp = conv2.first_timestamp
    /\ conv.last_injection_time_ms = conv2.last_injection_time_ms

\* C23: a row with a field that cannot be parsed writes no line, leaves the epoch
\* and the cursors as the run without that row has them, and the next row is
\* processed as in the run without it.
C23_Claim ==
    /\ (runs.unparsed /\ runs.pending = << >>) =>
          /\ Len(conv.written) = 0
          /\ SameTrackers
    /\ (~runs.unparsed /\ InStep) =>
          /\ SameTrackers
          /\ conv.t_ms = conv2.t_ms
          /\ conv.written = conv2.written

(***************************************************************************)
(* The claims about was_recently_changed.                                  *)
(***************************************************************************)
\* C24 as stated: was_recently_changed(name, window) is true exactly when the
\* parameter has been set and now - last_update_time <= window, and false for an
\* unknown name.
C24_Claim ==
    query.op = "was_recently_changed" =>
        (query.result <=>
            /\ query.param_name \in ParameterNames
            /\ query.seen_update # 0
            /\ query.at - query.seen_update <= query.within_seconds)

\* The set_parameter call of the control thread found enabled or its new raw
\* value different from the pair it read on entry.
FoundChange == call.enabled # call.old_enabled \/ call.new_raw # call.old_raw

\* C24, amended: was_recently_changed(name, window) is true exactly when a time t
\* is recorded for name and now - t <= window, and false when none is recorded or
\* the name is unknown; t is recorded, as the time of that moment, by the
\* set_parameter(name, ...) call that at line 207 finds enabled or its new raw value
\* different from the pair read on entry, and by nothing else.
C24_RecentlyChanged ==
    [][/\ query' # query =>
            (query'.result <=>
                /\ query'.param_name \in ParameterNames
                /\ query'.seen_change # None
                /\ query'.at - query'.seen_change <= query'.within_seconds)
       /\ \A n \in ParameterNames :
            /\ recent_changes'[n] # recent_changes[n] =>
                  /\ recent_changes'[n] = now
                  /\ call.pc = "L207" /\ call.param_name = n /\ FoundChange
            /\ (call.pc = "L207" /\ call'.pc # "L207" /\ call.param_name = n) =>
                  recent_changes'[n] = IF FoundChange THEN now ELSE recent_changes[n]
            /\ (call.pc = "L207" /\ call'.pc # "L207") =>
                  call.new_raw = IF call.enabled THEN parameters[call.param_name].raw_value
                                 ELSE 0]_vars

\* A query that is answered TRUE from a change recorded before the parameter's
\* latest update, within a window the change is still in.
C24_Witness ==
    /\ query.op = "was_recently_changed"
    /\ query.result
    /\ query.seen_change < query.seen_update
    /\ query.at > query.seen_update

(***************************************************************************)
(* The claim about the order of the output.                                *)
(***************************************************************************)
\* C25: while the timestamps of the rows read so far are non-decreasing, the lines
\* written for a row, synthetic lines and the row's own line together, carry
\* non-decreasing stamps in the order they are written.
C25_Claim ==
    conv.monotone =>
        \A i \in 1..(Len(conv.written) - 1) :
            conv.written[i].timestamp_ms <= conv.written[i + 1].timestamp_ms

(***************************************************************************)
(* The claim about concurrent writers and the flag.                        *)
(***************************************************************************)
\* C26: when every set_parameter call of the writers has returned, the flag is
\* set exactly when some parameter is enabled.
C26_Claim ==
    (\A w \in Writers : sp[w].pc = "idle") =>
        (simulation_enabled <=> \E n \in ParameterNames : parameters[n].enabled)

(***************************************************************************)
(* The claim about the parameters a call leaves alone.                     *)
(***************************************************************************)
\* C28: a step changes the enabled flag, the raw value or the last update time of
\* a parameter only as the set_enabled or set_value of a set_parameter call for
\* that parameter, and the store keeps the seven parameters it is built with.
C28_OnlyNamed ==
    [][/\ \A n \in ParameterNames :
            parameters'[n] # parameters[n] =>
                \E w \in Writers : /\ sp[w].param_name = n
                                   /\ sp[w].pc \in {"L200", "L203"}
                                   /\ sp'[w].pc # sp[w].pc
       /\ DOMAIN parameters = ParameterNames
       /\ DOMAIN parameters' = ParameterNames]_vars

\* A set_parameter call has enabled engine_rpm with a raw value and returned, and
\* every other parameter is as it was built.
C28_Witness ==
    /\ call.pc = "idle"
    /\ parameters["engine_rpm"].enabled
    /\ parameters["engine_rpm"].raw_value > 0
    /\ parameters["engine_rpm"].last_update_time = now
    /\ \A n \in ParameterNames \ {"engine_rpm"} : parameters[n] = AtomicParameter

(***************************************************************************)
(* The claim about the cursors.                                            *)
(***************************************************************************)
\* C27: for each PGN and every step, over rows in any order of time: the cursor
\* does not decrease; every line written for the PGN is a new one (the count of
\* its lines is the count of its distinct lines); the stamps written for it while
\* a row is processed start one interval after the old cursor and go on by one
\* interval each, none above the row's elapsed time; and its cursor moves by one
\* interval per line written for it, whatever is written for the other PGNs.
C27_Cursors ==
    [][\A n \in PgnNames :
         LET c      == conv.last_injection_time_ms[n]
             I      == PgnInfo(n).repetition_ms
             stamps == StampsOf(PgnInfo(n), conv'.written)
         IN  /\ conv'.last_injection_time_ms[n] >= c
             /\ conv'.n_injected[n] = Cardinality(InjectedOf(n, conv'.injected))
             /\ RowProcessed =>
                   /\ \A i \in DOMAIN stamps :
                         /\ stamps[i] = (IF i = 1 THEN c ELSE stamps[i - 1]) + I
                         /\ stamps[i] <= conv'.t_ms
                   /\ conv'.last_injection_time_ms[n] = c + I * Len(stamps)]_vars

\* After the timestamps have gone backwards a row catches up with several
\* Accel_Pedal lines while the Total_Hours cursor stays where it is.
C27_Witness ==
    /\ ~conv.monotone
    /\ ~conv.skipped
    /\ Len(StampsOf(PgnInfo("Accel_Pedal"), conv.written)) >= 2
    /\ Len(StampsOf(PgnInfo("Total_Hours"), conv.written)) = 0
    /\ conv.n_injected["Total_Hours"] >= 1

(***************************************************************************)
(* The claim about what modify_frame leaves alone.                         *)
(***************************************************************************)
\* C29: a step of modify_frame changes no field of the message it was called with,
\* no parameter, not the flag and not the list of listeners, and a call on the
\* result of the call before it, with the store as it was, returns a message equal
\* to that result.
C29_ReadOnly ==
    [][mf.pc \notin {"idle", "returned"} =>
          /\ mf'.msg = mf.msg
          /\ UNCHANGED <<parameters, simulation_enabled, update_callbacks, recent_changes>>
          /\ (mf'.pc = "returned" /\ mf.again) => mf'.result = mf.prior]_vars

\* The second call has overlaid an enabled engine_rpm on the result of the first,
\* which had overlaid it on other bytes, and has returned a new message.
C29_Witness ==
    /\ mf.pc = "returned"
    /\ mf.again
    /\ ~mf.same_object
    /\ parameters["engine_rpm"].enabled
    /\ mf.result.data[4] = parameters["engine_rpm"].raw_value % 256
    /\ mf.result.data[4] # 68

(***************************************************************************)
(* The claim about listeners and the stored pair.                          *)
(***************************************************************************)
\* get_state(name) after the call returns the pair the call read on entry.
SamePair ==
    /\ parameters[call.param_name].enabled = call.old_enabled
    /\ parameters[call.param_name].raw_value = call.old_raw

\* C30: a set_parameter call that leaves the (enabled, raw) pair of its parameter
\* as it was invokes no listener, and a call that changes the pair invokes each
\* registered listener once.
C30_Claim ==
    Notified =>
        IF SamePair
        THEN call.notified = << >>
        ELSE \A callback \in SeqToSet(update_callbacks) : InvocationsOf(callback) = 1

====
